---- MODULE Spec2Model ----
(***************************************************************************)
(* State-machine model of the XITE_GNN pain-recognition pipeline:          *)
(*   - interval segmentation and slice extraction, feature extraction      *)
(*     (preprocessing/slice_and_feature_extraction/preprocessing.py)       *)
(*   - AU co-occurrence counting and the adjacency matrix                  *)
(*     (preprocessing/graph_generation)                                    *)
(*   - subject-wise k-fold cross-validation (training/training_functions)  *)
(*   - the resampling of the raw labels to the video rate                  *)
(*     (preprocessing/video_labels/generate_video_labels.py)               *)
(* Each part has its own specification (SpecSlice, SpecStages,             *)
(* SpecVideoLabels, SpecFeat, SpecRepair, SpecFreq, SpecBatch,             *)
(* SpecDataset, SpecCV, SpecTrain); the variables of the parts it does     *)
(* not run keep idle values.                                               *)
(* Frame and interval indices keep the 0-based values of the Python code;  *)
(* TLA+ sequences are 1-based, so frame i is element i+1 of a sequence.    *)
(***************************************************************************)
EXTENDS Integers, Sequences, FiniteSets, TLC

VARIABLES pc,          \* position in the pipeline that is being run
          labels,      \* per-frame label sequence of the subject (load_labels)
          f_sampling,  \* sampling rate handed to _extract_slices
          config,      \* slicing tables of the config module
          intervals,   \* result of _compute_intervals_info
          slices,      \* result of _extract_slices (all_slices, slices_labels)
          video_label_run, \* the run of generate_video_labels_parallel
          preprocess_run,  \* the run of XITE_Preprocessor.preprocess_parallel
          bio_recording,   \* a raw label file and the length of the video
          labels_video,    \* what generate_subject_video_labels computed
          slice_data,  \* one slice handed to _extract_features_from_slice
          sample_rate, \* sample rate handed to _extract_features_from_slice
          fe_settings, \* the three feature_extraction_settings tables
          features,    \* what _extract_features_from_slice returned
          table,       \* the feature table handed to _repair_features
          strategy,    \* the strategy handed to _repair_features
          repaired,    \* what _repair_features returned and left in the table
          subject_frames,  \* per subject: the frames of its OpenFace file
          subjects_no_use, \* config.subjects_no_use of graph_generation
          seq_run,     \* the run of frequency_analysis (sequential)
          par_run,     \* the run of frequency_analysis_parallel
          adj,         \* what compute_adjacency_matrix returned
          sample_labels,   \* label level of the feature file's row index
          ds,          \* the constructed OpenFace_Features_Dataset
          dataset,     \* subj_id of every sample of the feature dataset
          n_splits,    \* the argument k of kfold_CV
          fold,        \* number of folds kfold_CV has run
          history,     \* history[fold] of kfold_CV
          num_epochs,  \* the argument num_epochs of kfold_CV
          test_accs,   \* test accuracy the model reaches in (fold, epoch)
          epoch,       \* number of epochs run in the current fold
          params,      \* the parameter tensors of the model
          training,    \* model.training (train mode / eval mode)
          best_acc,    \* local best_acc of kfold_CV
          best_params, \* local best_params of kfold_CV
          returned     \* best_params as the caller of kfold_CV receives it

videoVars == <<bio_recording, labels_video>>

stageVars == <<video_label_run, preprocess_run, videoVars>>

sliceVars == <<labels, f_sampling, config, intervals, slices, stageVars>>

repairVars == <<table, strategy, repaired>>

featVars == <<slice_data, sample_rate, fe_settings, features, repairVars>>

freqVars == <<subject_frames, subjects_no_use, seq_run, par_run, adj>>

splitVars == <<dataset, n_splits, num_epochs, test_accs>>

dsVars == <<sample_labels, ds>>

cvVars == <<dsVars, splitVars, fold, history, epoch, params, training, best_acc,
            best_params, returned>>

vars == <<pc, sliceVars, featVars, freqVars, cvVars>>

----------------------------------------------------------------------------
(* Bounds of the model *)

MaxFrames == 5

MaxRows == 6

MaxSubjectFrames == 1

MaxSubjects == 4

MaxEpochs == 2

\* rows (slices) of a feature table
MaxTableRows == 3

\* subjects with an OpenFace file in the label stages
MaxStageSubjects == 3

\* samples (slices) of a feature file
MaxSamples == 3

\* samples of a raw (biosignal-rate) label file
MaxBioSamples == 6

\* frames of the video the raw labels are resampled to
MaxVideoFrames == 4

----------------------------------------------------------------------------
(* IEEE not-a-number: labels are read back from a float CSV, so a label,   *)
(* and the padding of the pre/post arrays, may be NaN.                     *)

NaN == -9999

IsNaN(x) == x = NaN

Eq(a, b) == ~IsNaN(a) /\ ~IsNaN(b) /\ a = b

Neq(a, b) == ~Eq(a, b)

Ge(a, b) == ~IsNaN(a) /\ ~IsNaN(b) /\ a >= b

Le(a, b) == ~IsNaN(a) /\ ~IsNaN(b) /\ a <= b

Times(a, k) == IF IsNaN(a) THEN NaN ELSE a * k

Isin(x, S) == ~IsNaN(x) /\ x \in S

\* Python's  n & b  of an int and a boolean (array): the boolean counts as 0/1.
IntAndBool(n, b) == IF b THEN n % 2 ELSE 0

RECURSIVE SortedSeq(_)
\* ndarray.nonzero()[0]: the indices of a mask in ascending order.
SortedSeq(S) ==
    IF S = {} THEN <<>>
    ELSE LET m == CHOOSE x \in S : \A y \in S : x <= y
         IN  <<m>> \o SortedSeq(S \ {m})

RECURSIVE Flatten(_)
Flatten(ss) == IF ss = <<>> THEN <<>> ELSE Head(ss) \o Flatten(Tail(ss))

----------------------------------------------------------------------------
(* datasets/XITE.py *)

labels_invalid == {-10, -11}

labels_pain == <<-1, -2, -3, -4, -5, -6, 1, 2, 3, 4, 5, 6>>

labels_base == {-100, -200, -300, -400, -500, -600, 100, 200, 300, 400, 500, 600}

pain_groups == {"pH", "pE", "tH", "tE"}

base_groups == {"BpH", "BpE", "BtH", "BtE"}

PainSet == {labels_pain[i] : i \in DOMAIN labels_pain}

get_label_group(label) ==
    CASE label \in {1, 2, 3}          -> "pH"
      [] label \in {-1, -2, -3}       -> "pE"
      [] label \in {4, 5, 6}          -> "tH"
      [] label \in {-4, -5, -6}       -> "tE"
      [] label \in {100, 200, 300}    -> "BpH"
      [] label \in {-100, -200, -300} -> "BpE"
      [] label \in {400, 500, 600}    -> "BtH"
      [] label \in {-400, -500, -600} -> "BtE"

----------------------------------------------------------------------------
(* Subject_Preprocessor._compute_intervals_info *)

is_interval_start(l, i) == i = 0 \/ Neq(l[i], l[i + 1])

start_idxs(l) == SortedSeq({i \in 0 .. Len(l) - 1 : is_interval_start(l, i)})

\* mutant: the mask rolled the other way
end_idxs_RolledRight(l) ==
    SortedSeq({i \in 0 .. Len(l) - 1 :
                  is_interval_start(l, (i + Len(l) - 1) % Len(l))})

\* np.roll(is_interval_start, -1).nonzero()[0]
end_idxs(l) ==
    SortedSeq({i \in 0 .. Len(l) - 1 : is_interval_start(l, (i + 1) % Len(l))})

durations(starts, ends) == [k \in DOMAIN starts |-> ends[k] - starts[k] + 1]

raw_interval_labels(l, starts) == [k \in DOMAIN starts |-> l[starts[k] + 1]]

ToSet(q) == {q[x] : x \in DOMAIN q}

\* np.concatenate(([np.nan], x[0:-1]))
pre_of(x) == [k \in DOMAIN x |-> IF k = 1 THEN NaN ELSE x[k - 1]]

\* np.concatenate((x[1::], [np.nan]))
post_of(x) == [k \in DOMAIN x |-> IF k = Len(x) THEN NaN ELSE x[k + 1]]

\* interval_labels == 0 & np.isin(pre_interval_labels, self.labels_pain):
\* & binds tighter than ==, so the label is compared with  0 & isin(...).
is_baseline_interval(raw, pre, k) ==
    Eq(raw[k], IntAndBool(0, Isin(pre[k], PainSet)))

relabel(raw) ==
    LET pre == pre_of(raw)
    IN  [k \in DOMAIN raw |->
            IF is_baseline_interval(raw, pre, k) THEN Times(pre[k], 100)
            ELSE raw[k]]

compute_intervals_info(l) ==
    LET starts == start_idxs(l)
        ends   == end_idxs(l)
    IN  [start_idxs      |-> starts,
         end_idxs        |-> ends,
         interval_labels |-> relabel(raw_interval_labels(l, starts)),
         durations       |-> durations(starts, ends)]

----------------------------------------------------------------------------
(* Subject_Preprocessor._compute_slices_info *)

BaseOrZero == labels_base \cup {0}

is_pain_interval(info, fs, cfg, label, k) ==
    LET g == get_label_group(label)
    IN  /\ Eq(info.interval_labels[k], label)
        /\ Isin(pre_of(info.interval_labels)[k], BaseOrZero)
        /\ Isin(post_of(info.interval_labels)[k], BaseOrZero)
        /\ Ge(pre_of(info.durations)[k], cfg.pre_interval_min_lengths[g])
        /\ info.durations[k] >= cfg.interval_min_lengths[g] * fs - 2

\* mutant: the shift left out of the overlap
nof_interlapping_frames_NoShift(info, fs, cfg, label, k) ==
    LET g == get_label_group(label)
    IN  cfg.slice_lengths[g] * fs - info.durations[k]

nof_interlapping_frames(info, fs, cfg, label, k) ==
    LET g == get_label_group(label)
    IN  cfg.slice_shifts[g] * fs + cfg.slice_lengths[g] * fs - info.durations[k]

pain_interval_ids(info, fs, cfg, label) ==
    {k \in DOMAIN info.start_idxs :
        /\ is_pain_interval(info, fs, cfg, label, k)
        /\ Le(nof_interlapping_frames(info, fs, cfg, label, k),
              post_of(info.durations)[k])}

base_interval_ids(info, fs, cfg, label) ==
    LET bg == "B" \o get_label_group(label)
    IN  {k \in DOMAIN info.start_idxs :
            /\ Eq(info.interval_labels[k], label * 100)
            /\ Eq(pre_of(info.interval_labels)[k], label)
            /\ info.durations[k] >=
                   cfg.slice_shifts[bg] * fs + cfg.slice_lengths[bg] * fs}

\* the (start index, label) pairs one pass of the loop over labels_pain appends
slices_of_label(info, fs, cfg, label) ==
    LET g   == get_label_group(label)
        bg  == "B" \o g
        pid == SortedSeq(pain_interval_ids(info, fs, cfg, label))
        bid == SortedSeq(base_interval_ids(info, fs, cfg, label))
    IN  [s \in DOMAIN pid |->
            [start |-> info.start_idxs[pid[s]] + cfg.slice_shifts[g] * fs,
             label |-> label]]
        \o
        [s \in DOMAIN bid |->
            [start |-> info.start_idxs[bid[s]] + cfg.slice_shifts[bg] * fs,
             label |-> label * 100]]

compute_slices_info(info, fs, cfg) ==
    Flatten([p \in DOMAIN labels_pain |->
                slices_of_label(info, fs, cfg, labels_pain[p])])

----------------------------------------------------------------------------
(* Subject_Preprocessor._extract_slices *)

\* DataFrame.iloc[a:b] on n rows: the row numbers selected, with Python's
\* treatment of negative and out-of-range slice bounds.
ClipIndex(n, a) == IF a < 0 THEN (IF n + a < 0 THEN 0 ELSE n + a)
                   ELSE (IF a > n THEN n ELSE a)

iloc(n, a, b) ==
    LET lo == ClipIndex(n, a)
        hi == ClipIndex(n, b)
    IN  IF lo < hi THEN [r \in 1 .. hi - lo |-> lo + r - 1] ELSE <<>>

slice_end_idx(start_idx, slice_len) == start_idx + slice_len

extract_slices(l, fs, cfg, info) ==
    LET si == compute_slices_info(info, fs, cfg)
    IN  [s \in DOMAIN si |->
            LET slice_len == cfg.slice_lengths[get_label_group(si[s].label)] * fs
                end_idx   == slice_end_idx(si[s].start, slice_len)
            IN  [label     |-> si[s].label,
                 start_idx |-> si[s].start,
                 end_idx   |-> end_idx,
                 glob_idx  |-> iloc(Len(l), si[s].start, end_idx + 1)]]

----------------------------------------------------------------------------
(* Values of the parts of the pipeline that a specification does not run *)

NoIntervals ==
    [start_idxs |-> <<>>, end_idxs |-> <<>>, interval_labels |-> <<>>,
     durations |-> <<>>]

NoFeatures == [status |-> "none", features |-> <<>>, trace |-> <<>>]

RecordingIdle ==
    /\ bio_recording = [status |-> "none"]
    /\ labels_video = [status |-> "none"]

StagesIdle ==
    /\ video_label_run = [status |-> "none"]
    /\ preprocess_run = [status |-> "none"]
    /\ RecordingIdle

SubjectIdle ==
    /\ labels = <<>>
    /\ f_sampling = 0
    /\ config = <<>>
    /\ intervals = NoIntervals
    /\ slices = <<>>

SliceIdle == SubjectIdle /\ StagesIdle

NotRepaired == [status |-> "none"]

RepairIdle ==
    /\ table = <<>>
    /\ strategy = "none"
    /\ repaired = NotRepaired

ExtractIdle ==
    /\ slice_data = <<>>
    /\ sample_rate = 0
    /\ fe_settings = <<>>
    /\ features = NoFeatures

FeatIdle == ExtractIdle /\ RepairIdle

NoRun == [status |-> "none"]

NoAdjacency == [status |-> "none"]

FreqIdle ==
    /\ subject_frames = <<>>
    /\ subjects_no_use = {}
    /\ seq_run = NoRun
    /\ par_run = NoRun
    /\ adj = NoAdjacency

\* the parameters a freshly constructed model has
InitialParams == [init |-> 0, updates |-> 0]

\* best_params = None
NoParams == [kind |-> "none"]

NotReturned == [status |-> "none"]

DatasetIdle ==
    /\ sample_labels = <<>>
    /\ ds = [status |-> "none"]

CVIdle ==
    /\ DatasetIdle
    /\ dataset = <<>>
    /\ n_splits = 0
    /\ fold = 0
    /\ history = <<>>
    /\ num_epochs = 0
    /\ test_accs = <<>>
    /\ epoch = 0
    /\ params = InitialParams
    /\ training = TRUE
    /\ best_acc = 0
    /\ best_params = NoParams
    /\ returned = NotReturned

----------------------------------------------------------------------------
(* Inputs of the slicing stage *)

LabelValues == {0, 1, -10, NaN}

LabelSeqs == UNION {[1 .. n -> LabelValues] : n \in 1 .. MaxFrames}

SamplingRates == {1, 2}

ShiftValues == {-2, 0, 1}

LengthValues == {1, 2}

IntervalMinValues == {2, 4}

PreIntervalMinValues == {1, 2}

BaseShiftValues == {0, 1}

BaseLengthValues == {1}

\* config_video.py: one table per quantity, keyed by pain / baseline group
MakeConfig(shift, len, imin, premin, bshift, blen) ==
    [slice_shifts  |-> [g \in pain_groups \cup base_groups |->
                           IF g \in pain_groups THEN shift ELSE bshift],
     slice_lengths |-> [g \in pain_groups \cup base_groups |->
                           IF g \in pain_groups THEN len ELSE blen],
     interval_min_lengths     |-> [g \in pain_groups |-> imin],
     pre_interval_min_lengths |-> [g \in pain_groups |-> premin]]

Configs ==
    {MakeConfig(sh, ln, im, pm, bs, bl) :
        sh \in ShiftValues, ln \in LengthValues, im \in IntervalMinValues,
        pm \in PreIntervalMinValues, bs \in BaseShiftValues,
        bl \in BaseLengthValues}

\* the recording and pH policy of the documented slicing scenario
ScenarioLabels == <<0, 0, 0, 1, 1, 1, 1, 0, 0, 0, 0, 0, 0, 0, 0>>

ScenarioConfig == MakeConfig(0, 4, 4, 3, 1, 2)

InitSlice ==
    /\ StagesIdle
    /\ FeatIdle
    /\ FreqIdle
    /\ CVIdle
    /\ pc = "loaded"
    /\ \/ /\ labels \in LabelSeqs
          /\ f_sampling \in SamplingRates
          /\ config \in Configs
       \/ /\ labels = ScenarioLabels
          /\ f_sampling = 1
          /\ config = ScenarioConfig
    /\ intervals = NoIntervals
    /\ slices = <<>>

\* Subject_Preprocessor.preprocess up to the return of _extract_slices
ExtractSlices ==
    /\ pc = "loaded"
    /\ LET info == compute_intervals_info(labels)
       IN  /\ intervals' = info
           /\ slices' = extract_slices(labels, f_sampling, config, info)
    /\ pc' = "sliced"
    /\ UNCHANGED <<labels, f_sampling, config, stageVars, featVars, freqVars,
                   cvVars>>

NextSlice == ExtractSlices

SpecSlice == InitSlice /\ [][NextSlice]_vars

----------------------------------------------------------------------------
(* The two stages that read a label file per subject:                      *)
(* video_labels/generate_video_labels.py (reads S<id>.mat, writes the      *)
(* video labels S<id>.csv) and XITE_Preprocessor.preprocess_parallel       *)
(* (reads the video labels through OpenFace_Raw_Dataset.load_labels)       *)

\* OpenFace_Raw_Dataset.subject_list: the subjects with an OpenFace file
StageSubjects == 1 .. MaxStageSubjects

\* the slicing policy of the batch run
StageConfig == MakeConfig(0, 2, 2, 1, 1, 1)

\* the video labels of a subject with two stimuli, which give three slices
StimulusLabels == <<0, 0, 1, 1, 1, 0, 0, 0, 1, 1, 1, 0, 0, 0>>

\* the video labels of a subject without stimulus, which give no slice
RestLabels == <<0, 0, 0, 0>>

\* the video labels per subject: those of subject z carry no stimulus
\* (z = 0: every subject has stimuli)
StageVideoLabels(z) ==
    [subject_id \in StageSubjects |->
        IF subject_id = z THEN RestLabels ELSE StimulusLabels]

\* XITE_Preprocessor before preprocess_parallel is called; finish_order is
\* the order in which the jobs end, which the program does not record
PreprocessReady(subjects_valid, slice_extraction, video_labels) ==
    [status |-> "ready", subjects_valid |-> subjects_valid,
     slice_extraction |-> slice_extraction,
     video_labels |-> video_labels, sample_rate |-> 1,
     config |-> StageConfig,
     pending |-> {}, done |-> {}, raised |-> {}, finish_order |-> <<>>,
     written |-> {}, features_csv |-> <<>>, slices_csv |-> <<>>]

\* what Subject_Preprocessor.preprocess returns for a subject: its feature
\* table, and its slices or None (slice_extraction off)
subject_result(subject_id, slice_extraction) ==
    [features |-> [is_none |-> FALSE, subject |-> subject_id],
     slices   |-> [is_none |-> ~slice_extraction, subject |-> subject_id]]

\* Subject_Preprocessor._process_slices on the list of slices: the loop
\* over the slices runs len(slices_data) times, then the columns are
\* read from slices_data[0], an IndexError on an empty list; with two or
\* more slices the list is concatenated into one table
process_slices(subject_id, slices_data, slice_extraction) ==
    IF Len(slices_data) = 0
    THEN [status |-> "raised", error |-> "IndexError"]
    ELSE [status |-> "returned",
          result |-> subject_result(subject_id, slice_extraction),
          nof_slices |-> Len(slices_data)]

\* Subject_Preprocessor.preprocess: load_labels (pd.read_csv on the video
\* labels of the subject, outside any try), _extract_slices,
\* _process_slices
preprocess(subject_id, run, label_files) ==
    IF subject_id \notin label_files
    THEN [status |-> "raised", error |-> "FileNotFoundError"]
    ELSE LET l == run.video_labels[subject_id]
             slices_data == extract_slices(l, run.sample_rate, run.config,
                                           compute_intervals_info(l))
         IN  process_slices(subject_id, slices_data, run.slice_extraction)

\* mutant: the results in the order in which the jobs ended
parallel_results_InFinishOrder(run) ==
    [s \in DOMAIN run.finish_order |->
        subject_result(run.finish_order[s], run.slice_extraction)]

\* results = parallel(delayed(...)(subject_id) for subject_id in
\* self.subjects_valid): one result per job, in the order of submission
parallel_results(run) ==
    LET order == SortedSeq(run.subjects_valid)
    IN  [s \in DOMAIN order |-> subject_result(order[s], run.slice_extraction)]

RECURSIVE write_csv(_, _, _, _)
\* the loop of _write_parallel_results for one of the two files: the first
\* table that is not None is written with its header (a new file), the
\* later ones are appended without header
write_csv(results, part, append_header, file) ==
    IF results = <<>> THEN file
    ELSE LET t == Head(results)[part]
         IN  IF t.is_none
             THEN write_csv(Tail(results), part, append_header, file)
             ELSE IF append_header
                  THEN write_csv(Tail(results), part, FALSE,
                                 <<[header |-> TRUE, subject |-> t.subject]>>)
                  ELSE write_csv(Tail(results), part, FALSE,
                                 Append(file, [header |-> FALSE,
                                               subject |-> t.subject]))

\* _write_parallel_results(results): features.csv and slices.csv
write_parallel_results(results) ==
    [features_csv |-> write_csv(results, "features", TRUE, <<>>),
     slices_csv   |-> write_csv(results, "slices", TRUE, <<>>)]

InitStages ==
    /\ SubjectIdle
    /\ RecordingIdle
    /\ FeatIdle
    /\ FreqIdle
    /\ CVIdle
    /\ pc = "generate_video_labels"
    /\ \E raw \in SUBSET StageSubjects :
          video_label_run = [status |-> "running", raw_label_files |-> raw,
                             pending |-> StageSubjects, warned |-> {},
                             written |-> {}]
    /\ \E no_use \in {{}, {2}}, slice_extraction \in BOOLEAN,
          z \in {0} \cup StageSubjects :
          preprocess_run = PreprocessReady(StageSubjects \ no_use,
                                           slice_extraction,
                                           StageVideoLabels(z))

\* one job of generate_video_labels_parallel: loadmat inside try / except
\* with a warning and a return, else the video labels are written
generate_subject_video_labels(subj_id) ==
    /\ video_label_run.status = "running"
    /\ subj_id \in video_label_run.pending
    /\ video_label_run' =
          IF subj_id \in video_label_run.raw_label_files
          THEN [video_label_run EXCEPT !.pending = @ \ {subj_id},
                                       !.written = @ \cup {subj_id}]
          ELSE [video_label_run EXCEPT !.pending = @ \ {subj_id},
                                       !.warned = @ \cup {subj_id}]
    /\ UNCHANGED <<pc, labels, f_sampling, config, intervals, slices,
                   preprocess_run, videoVars, featVars, freqVars, cvVars>>

\* Parallel(...) of generate_video_labels_parallel has run every job
VideoLabelsFinished ==
    /\ video_label_run.status = "running"
    /\ video_label_run.pending = {}
    /\ video_label_run' = [video_label_run EXCEPT !.status = "finished"]
    /\ pc' = "preprocess"
    /\ UNCHANGED <<labels, f_sampling, config, intervals, slices,
                   preprocess_run, videoVars, featVars, freqVars, cvVars>>

\* preprocess_parallel submits one job per subject of subjects_valid
preprocess_parallel ==
    /\ video_label_run.status = "finished"
    /\ preprocess_run.status = "ready"
    /\ preprocess_run' = [preprocess_run EXCEPT
                             !.status = "running",
                             !.pending = preprocess_run.subjects_valid]
    /\ UNCHANGED <<pc, labels, f_sampling, config, intervals, slices,
                   video_label_run, videoVars, featVars, freqVars, cvVars>>

\* one job: Subject_Preprocessor(subject_id).preprocess()
call_subject_preprocessing(subject_id) ==
    /\ preprocess_run.status = "running"
    /\ subject_id \in preprocess_run.pending
    /\ preprocess_run' =
          IF preprocess(subject_id, preprocess_run,
                        video_label_run.written).status = "returned"
          THEN [preprocess_run EXCEPT !.pending = @ \ {subject_id},
                                      !.done = @ \cup {subject_id},
                                      !.finish_order = Append(@, subject_id)]
          ELSE [preprocess_run EXCEPT !.pending = @ \ {subject_id},
                                      !.raised = @ \cup {subject_id}]
    /\ UNCHANGED <<pc, labels, f_sampling, config, intervals, slices,
                   video_label_run, videoVars, featVars, freqVars, cvVars>>

\* the parallel call returns the results of all jobs, which are then
\* written, or re-raises the exception of a job (jobs not yet run are
\* dropped)
PreprocessParallelEnds ==
    /\ preprocess_run.status = "running"
    /\ preprocess_run.pending = {} \/ preprocess_run.raised # {}
    /\ preprocess_run' =
          IF preprocess_run.raised # {}
          THEN [preprocess_run EXCEPT !.status = "raised"]
          ELSE LET files == write_parallel_results(
                                parallel_results(preprocess_run))
               IN  [preprocess_run EXCEPT
                       !.status = "finished",
                       !.written = preprocess_run.done,
                       !.features_csv = files.features_csv,
                       !.slices_csv = files.slices_csv]
    /\ pc' = "preprocessed"
    /\ UNCHANGED <<labels, f_sampling, config, intervals, slices,
                   video_label_run, videoVars, featVars, freqVars, cvVars>>

NextStages ==
    \/ \E subj_id \in StageSubjects : generate_subject_video_labels(subj_id)
    \/ VideoLabelsFinished
    \/ preprocess_parallel
    \/ \E subject_id \in StageSubjects : call_subject_preprocessing(subject_id)
    \/ PreprocessParallelEnds

SpecStages == InitStages /\ [][NextStages]_vars

----------------------------------------------------------------------------
(* preprocessing/video_labels/generate_video_labels.py:                    *)
(* generate_subject_video_labels, the resampling of the raw labels.  The   *)
(* rate ratio fs_video / fs_label is kept as the pair of the two rates and *)
(* a scaled index e * fs_video / fs_label as the fraction it is.           *)

Abs(x) == IF x < 0 THEN -x ELSE x

\* np.diff(labels).nonzero()[0]: the 0-based positions whose successor
\* carries another label
diff_nonzero(l) ==
    SortedSeq({i \in 0 .. Len(l) - 2 : l[i + 2] - l[i + 1] # 0})

\* np.round(n / q) for n >= 0: to the nearest integer, a half to the even one
np_round(n, q) ==
    LET lo == n \div q
        twice == 2 * (n % q)
    IN  IF twice < q THEN lo
        ELSE IF twice > q THEN lo + 1
        ELSE IF lo % 2 = 0 THEN lo ELSE lo + 1

\* is_endidx_mask for the raw end index e: the scaled end index is not
\* farther from the rounded end index than the scaled start index
is_endidx(e, fs_video, fs_label) ==
    LET r == np_round(e * fs_video, fs_label)
    IN  Abs(r * fs_label - e * fs_video)
            <= Abs(r * fs_label - (e + 1) * fs_video)

\* idxs_end after the two masked assignments
rounded_end(e, fs_video, fs_label) ==
    IF is_endidx(e, fs_video, fs_label)
    THEN np_round(e * fs_video, fs_label)
    ELSE np_round(e * fs_video, fs_label) - 1

\* mutant: the start index stays at the rounded end index
rounded_start_NoStep(e, fs_video, fs_label) ==
    np_round(e * fs_video, fs_label)

\* idxs_start after the two masked assignments
rounded_start(e, fs_video, fs_label) ==
    IF is_endidx(e, fs_video, fs_label)
    THEN np_round(e * fs_video, fs_label) + 1
    ELSE np_round(e * fs_video, fs_label)

\* the video-rate intervals: idxs_start, idxs_end and interval_labels as
\* they are when the loop over the intervals begins
video_intervals(l, fs_video, fs_label) ==
    LET ends == diff_nonzero(l)
    IN  [raw_idxs_end    |-> ends,
         idxs_start      |-> <<0>> \o [k \in DOMAIN ends |->
                                 rounded_start(ends[k], fs_video, fs_label)],
         idxs_end        |-> Append([k \in DOMAIN ends |->
                                        rounded_end(ends[k], fs_video, fs_label)],
                                    np_round(Len(l) * fs_video, fs_label)),
         interval_labels |-> <<l[1]>> \o [k \in DOMAIN ends |-> l[ends[k] + 2]]]

RECURSIVE fill_labels_video(_, _, _, _)
\* the loop "for i in range(len(idxs_start))" from interval i on:
\* labels_video[start_idx:end_idx+1] = label, and the break behind the
\* interval that reaches the last video frame.  frames[f + 1] is the label
\* of frame f (NaN: np.nan, never assigned); writers[f + 1] lists the
\* intervals that assigned frame f, in the order of their assignments.
fill_labels_video(info, i, frames, writers) ==
    IF i > Len(info.idxs_start) THEN [frames |-> frames, writers |-> writers]
    ELSE LET n == Len(frames)
             start_idx == info.idxs_start[i]
             end_idx == info.idxs_end[i]
             hit == ToSet(iloc(n, start_idx, end_idx + 1))
             frames2 == [f \in 1 .. n |->
                            IF f - 1 \in hit THEN info.interval_labels[i]
                            ELSE frames[f]]
             writers2 == [f \in 1 .. n |->
                             IF f - 1 \in hit THEN Append(writers[f], i)
                             ELSE writers[f]]
         IN  IF end_idx >= n - 1
             THEN [frames |-> frames2, writers |-> writers2]
             ELSE fill_labels_video(info, i + 1, frames2, writers2)

\* generate_subject_video_labels behind the loading of the raw label file,
\* up to the csv file with one label per video frame
subject_video_labels(rec) ==
    LET info == video_intervals(rec.labels, rec.fs_video, rec.fs_label)
        n == rec.nof_samples_video
        filled == fill_labels_video(info, 1, [f \in 1 .. n |-> NaN],
                                    [f \in 1 .. n |-> <<>>])
    IN  info @@ [status |-> "written", frames |-> filled.frames,
                 writers |-> filled.writers]

\* labels of the raw label files
BioLabelValues == {0, 1, -10}

BioLabelSeqs(n) == [1 .. n -> BioLabelValues]

\* <<fs_video, fs_label>> with fs_video <= fs_label
RatePairs == {<<1, 1>>, <<1, 2>>, <<2, 3>>, <<1, 3>>, <<2, 5>>}

InitVideoLabels ==
    /\ SubjectIdle
    /\ FeatIdle
    /\ FreqIdle
    /\ CVIdle
    /\ pc = "video_labels"
    /\ video_label_run = [status |-> "none"]
    /\ preprocess_run = [status |-> "none"]
    /\ \E n \in 1 .. MaxBioSamples : \E l \in BioLabelSeqs(n) :
       \E rates \in RatePairs : \E nvid \in 1 .. MaxVideoFrames :
          bio_recording = [status |-> "loaded", labels |-> l,
                           fs_video |-> rates[1], fs_label |-> rates[2],
                           nof_samples_video |-> nvid]
    /\ labels_video = [status |-> "none"]

\* one call of generate_subject_video_labels for a subject with a raw
\* label file
GenerateSubjectVideoLabels ==
    /\ pc = "video_labels"
    /\ labels_video.status = "none"
    /\ labels_video' = subject_video_labels(bio_recording)
    /\ pc' = "video_labels_written"
    /\ UNCHANGED <<labels, f_sampling, config, intervals, slices,
                   video_label_run, preprocess_run, bio_recording, featVars,
                   freqVars, cvVars>>

NextVideoLabels == GenerateSubjectVideoLabels

SpecVideoLabels == InitVideoLabels /\ [][NextVideoLabels]_vars

----------------------------------------------------------------------------
(* feature_extraction_functions.py: what a call of a feature function does *)
(* on a signal of n samples.  The numeric value is abstracted to "num" or  *)
(* "nan"; the sample rate the function worked with is kept.                *)

DefaultSampleRate == 1000

SplitFactor == 10

\* the functions whose signature has a sample_rate parameter
rate_aware_functions ==
    {"signal_tmax", "signal_tgm", "signal_tga", "signal_split_equal_part_mean",
     "signal_split_equal_part_std", "signal_split_equal_part_var"}

\* the feature functions that are modelled
FeatureFunctions ==
    {"signal_mean", "signal_min", "signal_tmax", "signal_split_equal_part_mean"}

\* kw: the keyword the caller passes the rate with, "none" for a call without
AcceptsKeyword(func, kw) ==
    kw = "none" \/ (kw = "sample_rate" /\ func \in rate_aware_functions)

EffectiveRate(func, kw, rate) ==
    IF func \in rate_aware_functions
    THEN (IF kw = "sample_rate" THEN rate ELSE DefaultSampleRate)
    ELSE 0

\* int(t_i) handed to np.array_split in signal_split_equal_part_mean
NofSections(n, rate) ==
    IF n < rate * SplitFactor THEN n \div rate ELSE (n * SplitFactor) \div rate

\* np.min / np.argmax of an empty array and np.array_split into <= 0 sections
\* raise ValueError; np.mean of an empty array is nan
BodyRaises(func, n, rate) ==
    CASE func = "signal_mean" -> FALSE
      [] func = "signal_min"  -> n = 0
      [] func = "signal_tmax" -> n = 0
      [] func = "signal_split_equal_part_mean" -> NofSections(n, rate) <= 0

ValueClass(func, n, content, rate) ==
    CASE func = "signal_mean" -> IF n = 0 \/ content = "nan" THEN "nan" ELSE "num"
      [] func = "signal_min"  -> IF content = "nan" THEN "nan" ELSE "num"
      [] func = "signal_tmax" -> "num"
      [] func = "signal_split_equal_part_mean" ->
            IF content = "nan" \/ NofSections(n, rate) > n THEN "nan" ELSE "num"

FuncCall(func, n, content, kw, rate) ==
    LET r == EffectiveRate(func, kw, rate)
    IN  IF ~AcceptsKeyword(func, kw) \/ BodyRaises(func, n, r)
        THEN [raised |-> TRUE, value |-> "none", rate |-> 0, calls |-> 1,
              trace |-> <<[func |-> func, kw |-> kw, raised |-> TRUE]>>]
        ELSE [raised |-> FALSE, value |-> ValueClass(func, n, content, r),
              rate |-> r, calls |-> 1,
              trace |-> <<[func |-> func, kw |-> kw, raised |-> FALSE]>>]

\* mutant: no second call
TryWithFallback_NoRetry(func, n, content, kw, rate) ==
    FuncCall(func, n, content, kw, rate)

\* try: func(x, <kw>=sample_rate)   except: func(x)
TryWithFallback(func, n, content, kw, rate) ==
    LET first  == FuncCall(func, n, content, kw, rate)
        second == FuncCall(func, n, content, "none", rate)
    IN  IF ~first.raised THEN first
        ELSE [second EXCEPT !.calls = 2, !.trace = first.trace \o second.trace]

\* compute_derivative(signal, h=1): range(signal.shape[0] - 1 - h) differences
DerivativeLength(n) == IF n - 2 > 0 THEN n - 2 ELSE 0

DerivativeContent(content) ==
    CASE content = "varying"  -> "varying"
      [] content = "constant" -> "zero"
      [] content = "zero"     -> "zero"
      [] content = "nan"      -> "nan"

----------------------------------------------------------------------------
(* Subject_Preprocessor._extract_features_from_slice and the column index  *)
(* of _process_slices                                                      *)

Entry(channel, name, call) ==
    [channel |-> channel, feature |-> name, raised |-> call.raised,
     value |-> call.value, rate |-> call.rate, calls |-> call.calls,
     trace |-> call.trace]

BranchEntries(channel, settings, suffix, n, content, kw, rate) ==
    IF channel \in DOMAIN settings
    THEN [i \in DOMAIN settings[channel] |->
              Entry(channel, settings[channel][i] \o suffix,
                    TryWithFallback(settings[channel][i], n, content, kw, rate))]
    ELSE <<>>

\* the loop body of _extract_features_from_slice for one channel
ChannelEntries(data, channel, settings, rate) ==
    BranchEntries(channel, settings.base, "", data.nrows, data.content,
                  "sample_rate", rate)
    \o
    BranchEntries(channel, settings.d1, "_d1",
                  DerivativeLength(data.nrows), DerivativeContent(data.content),
                  "sampling_rate", rate)
    \o
    BranchEntries(channel, settings.d2, "_d2",
                  DerivativeLength(DerivativeLength(data.nrows)),
                  DerivativeContent(DerivativeContent(data.content)),
                  "sample_rate", rate)

extract_features_from_slice(data, rate, settings) ==
    LET all == Flatten([c \in DOMAIN data.columns |->
                           ChannelEntries(data, data.columns[c], settings, rate)])
        \* the calls made until the first exception leaves the method
        made == {i \in DOMAIN all : \A j \in 1 .. i - 1 : ~all[j].raised}
        trace == Flatten([i \in 1 .. Cardinality(made) |-> all[i].trace])
    IN  IF \E i \in DOMAIN all : all[i].raised
        THEN [status |-> "raised", features |-> <<>>, trace |-> trace]
        ELSE [status |-> "returned", features |-> all, trace |-> trace]

ColumnsOf(channel, settings, suffix) ==
    IF channel \in DOMAIN settings
    THEN [i \in DOMAIN settings[channel] |->
              [channel |-> channel, feature |-> settings[channel][i] \o suffix]]
    ELSE <<>>

\* col_idx of _process_slices
col_idx(columns, settings) ==
    Flatten([c \in DOMAIN columns |->
                ColumnsOf(columns[c], settings.base, "")
                \o ColumnsOf(columns[c], settings.d1, "_d1")
                \o ColumnsOf(columns[c], settings.d2, "_d2")])

RECURSIVE SumLengths(_)
SumLengths(d) ==
    IF DOMAIN d = {} THEN 0
    ELSE LET k == CHOOSE x \in DOMAIN d : TRUE
         IN  Len(d[k]) + SumLengths([x \in DOMAIN d \ {k} |-> d[x]])

\* self.nof_features of _read_config
nof_features(settings) ==
    SumLengths(settings.base) + SumLengths(settings.d1) + SumLengths(settings.d2)

----------------------------------------------------------------------------
(* Inputs of feature extraction *)

FeatureChannels == {"AU01_r", "AU02_r"}

\* the columns of the loaded data: every configured channel, in file order
ColumnOrders == {<<"AU01_r", "AU02_r", "AU04_r">>, <<"AU04_r", "AU02_r", "AU01_r">>}

FunctionLists ==
    {<<"signal_mean", "signal_tmax">>,
     <<"signal_min", "signal_split_equal_part_mean">>}

SettingsTables ==
    UNION {[K -> FunctionLists] : K \in SUBSET FeatureChannels}

SliceContents == {"varying", "constant", "zero", "nan"}

InitFeat ==
    /\ SliceIdle
    /\ FreqIdle
    /\ CVIdle
    /\ pc = "slice_ready"
    /\ \E cols \in ColumnOrders, n \in 0 .. MaxRows, c \in SliceContents :
          slice_data = [columns |-> cols, nrows |-> n, content |-> c]
    /\ sample_rate \in SamplingRates
    /\ \E b \in SettingsTables, d1 \in SettingsTables, d2 \in SettingsTables :
          fe_settings = [base |-> b, d1 |-> d1, d2 |-> d2]
    /\ features = NoFeatures
    /\ RepairIdle

\* one call features[s,:] = self._extract_features_from_slice(slices_data[s], sample_rate)
ExtractFeaturesFromSlice ==
    /\ pc = "slice_ready"
    /\ features' = extract_features_from_slice(slice_data, sample_rate, fe_settings)
    /\ pc' = IF features'.status = "raised" THEN "raised" ELSE "extracted"
    /\ UNCHANGED <<slice_data, sample_rate, fe_settings, repairVars, sliceVars,
                   freqVars, cvVars>>

NextFeat == ExtractFeaturesFromSlice

SpecFeat == InitFeat /\ [][NextFeat]_vars

----------------------------------------------------------------------------
(* graph_generation/frequency_analysis.py: counting AU pair occurrences    *)

labels_valid == <<0, 1, 2, 3, 4, 5, 6, -1, -2, -3, -4, -5, -6>>

LabelsValidSet == {labels_valid[x] : x \in DOMAIN labels_valid}

eps_activity == 1

\* positions of the AU columns of a subject's file (two AUs are modelled);
\* column 1 is the first column of the data frame
AUs == {1, 2}

Comparator(comparator, a, b) ==
    IF comparator = "logical_and" THEN a /\ b ELSE a \/ b

\* the rows picked by the boolean mask of count_pair_occurrences
MaskedRows(data, lbls, label, AUi, AUj, comparator) ==
    {f \in DOMAIN data :
        /\ Eq(lbls[f], label)
        /\ Comparator(comparator, Ge(data[f][AUi], eps_activity),
                                  Ge(data[f][AUj], eps_activity))}

\* mutant: the non-NaN entries of column AUi are counted, not of column 0
count_pair_occurrences_CountsOwnColumn(data, lbls, comparator) ==
    [label \in LabelsValidSet |-> [AUi \in AUs |-> [AUj \in AUs |->
        Cardinality({f \in MaskedRows(data, lbls, label, AUi, AUj, comparator) :
                        ~IsNaN(data[f][AUi])})]]]

\* df_AU_data[mask].iloc[:,0].count(): the masked rows whose first column
\* is not NaN
count_pair_occurrences(data, lbls, comparator) ==
    [label \in LabelsValidSet |-> [AUi \in AUs |-> [AUj \in AUs |->
        Cardinality({f \in MaskedRows(data, lbls, label, AUi, AUj, comparator) :
                        ~IsNaN(data[f][1])})]]]

FrameLabels(frames) == [f \in DOMAIN frames |-> frames[f].label]

AUc_data(frames) == [f \in DOMAIN frames |-> frames[f].AUc]

AUr_data(frames) == [f \in DOMAIN frames |-> frames[f].AUr]

\* _subject_frequency_analysis with eps_conf = None
subject_frequency_analysis(frames) ==
    LET lbls == FrameLabels(frames)
    IN  [counts_AUc_and |-> count_pair_occurrences(AUc_data(frames), lbls, "logical_and"),
         counts_AUc_or  |-> count_pair_occurrences(AUc_data(frames), lbls, "logical_or"),
         counts_AUr_and |-> count_pair_occurrences(AUr_data(frames), lbls, "logical_and"),
         counts_AUr_or  |-> count_pair_occurrences(AUr_data(frames), lbls, "logical_or"),
         nof_frames_per_label |->
             [label \in LabelsValidSet |->
                 Cardinality({f \in DOMAIN lbls : Eq(lbls[f], label)})]]

ZeroCounts == [label \in LabelsValidSet |-> [AUi \in AUs |-> [AUj \in AUs |-> 0]]]

\* the zero-initialised data frames and series of both analyses
ZeroTotals ==
    [counts_AUc_and |-> ZeroCounts, counts_AUc_or |-> ZeroCounts,
     counts_AUr_and |-> ZeroCounts, counts_AUr_or |-> ZeroCounts,
     nof_frames_per_label |-> [label \in LabelsValidSet |-> 0]]

AddCounts(a, b) ==
    [label \in LabelsValidSet |-> [AUi \in AUs |-> [AUj \in AUs |->
        a[label][AUi][AUj] + b[label][AUi][AUj]]]]

\* df_counts_... += result[...] ; nof_frames_per_label += result[4]
AddTotals(a, b) ==
    [counts_AUc_and |-> AddCounts(a.counts_AUc_and, b.counts_AUc_and),
     counts_AUc_or  |-> AddCounts(a.counts_AUc_or, b.counts_AUc_or),
     counts_AUr_and |-> AddCounts(a.counts_AUr_and, b.counts_AUr_and),
     counts_AUr_or  |-> AddCounts(a.counts_AUr_or, b.counts_AUr_or),
     nof_frames_per_label |->
         [label \in LabelsValidSet |->
             a.nof_frames_per_label[label] + b.nof_frames_per_label[label]]]

\* dataset.subject_list: the sorted ids of the subjects that have a file
subject_list(frames_of) == [x \in DOMAIN frames_of |-> x]

\* the subjects both analyses work on, in the order of subject_list
used_subjects(frames_of, no_use) ==
    SelectSeq(subject_list(frames_of), LAMBDA subj : subj \notin no_use)

RECURSIVE sequential_totals(_, _, _)
\* the loop of frequency_analysis over subject_list
sequential_totals(frames_of, subjs, acc) ==
    IF subjs = <<>> THEN acc
    ELSE sequential_totals(frames_of, Tail(subjs),
             AddTotals(acc, subject_frequency_analysis(frames_of[Head(subjs)])))

RECURSIVE join_results(_, _, _)
\* "for result in results": the results in the order the jobs were submitted
join_results(results, subjs, acc) ==
    IF subjs = <<>> THEN acc
    ELSE join_results(results, Tail(subjs), AddTotals(acc, results[Head(subjs)]))

NoFiles == [exists |-> FALSE, totals |-> ZeroTotals]

\* the five csv files of a run; the counts are integers and are read back
\* as the integers that were written
to_csv(totals) == [exists |-> TRUE, totals |-> totals]

----------------------------------------------------------------------------
(* graph_generation/compute_adjacency.py *)

RECURSIVE GCD(_, _)
GCD(a, b) == IF b = 0 THEN a ELSE GCD(b, a % b)

\* a / b of two numpy integers, as a reduced fraction; den = 0 stands for
\* the results of a division by zero: 0/0 = nan (num = 0), a/0 = inf (num = 1)
Divide(a, b) ==
    IF b = 0 THEN [num |-> IF a = 0 THEN 0 ELSE 1, den |-> 0]
    ELSE [num |-> a \div GCD(a, b), den |-> b \div GCD(a, b)]

IsNaNQuotient(q) == q.den = 0 /\ q.num = 0

\* IEEE equality of two quotients: nan equals nothing
QuotientEq(p, q) == ~IsNaNQuotient(p) /\ ~IsNaNQuotient(q) /\ p = q

RECURSIVE SumOverLabels(_, _, _, _)
SumOverLabels(counts, lbls, AUi, AUj) ==
    IF lbls = {} THEN 0
    ELSE LET label == CHOOSE x \in lbls : TRUE
         IN  counts[label][AUi][AUj] + SumOverLabels(counts, lbls \ {label}, AUi, AUj)

\* rows of use_labels, then groupby("AU").sum()
aggregate_counts(counts, use_labels) ==
    [AUi \in AUs |-> [AUj \in AUs |->
        SumOverLabels(counts, use_labels \cap LabelsValidSet, AUi, AUj)]]

compute_rel_AU_freq_cond_symm(df_counts_and, df_counts_or) ==
    [AUi \in AUs |-> [AUj \in AUs |->
        Divide(df_counts_and[AUi][AUj], df_counts_or[AUi][AUj])]]

\* df_counts_and.loc[AUi, AUj] / df_counts_and.loc[AUj, AUj]; the table that
\* df_rel_freqs.fillna(0) evaluates to is not kept, so nan entries stay
compute_rel_AU_freqs_cond(df_counts_and) ==
    [AUi \in AUs |-> [AUj \in AUs |->
        Divide(df_counts_and[AUi][AUj], df_counts_and[AUj][AUj])]]

\* df_adj.values.flatten(), sorted as np.percentile sorts it (finite values)
sorted_values(m) ==
    LET cells == SortedSeq({(AUi - 1) * Cardinality(AUs) + AUj :
                               AUi \in AUs, AUj \in AUs})
        at(x)  == m[((cells[x] - 1) \div Cardinality(AUs)) + 1]
                   [((cells[x] - 1) % Cardinality(AUs)) + 1]
        order == CHOOSE o \in [DOMAIN cells -> DOMAIN cells] :
                    /\ \A x, y \in DOMAIN cells : x # y => o[x] # o[y]
                    /\ \A x, y \in DOMAIN cells :
                          x < y => at(o[x]).num * at(o[y]).den
                                      <= at(o[y]).num * at(o[x]).den
    IN  [x \in DOMAIN cells |-> at(order[x])]

\* e < np.percentile(values, q) for the sorted finite values v: linear
\* interpolation between the neighbours of position (n - 1) * q / 100
below_percentile(e, v, q) ==
    LET h  == (Len(v) - 1) * q
        lo == v[(h \div 100) + 1]
        hi == v[IF h % 100 = 0 THEN (h \div 100) + 1 ELSE (h \div 100) + 2]
    IN  100 * e.num * lo.den * hi.den
          < e.den * (100 * lo.num * hi.den
                       + (h % 100) * (hi.num * lo.den - lo.num * hi.den))

\* percentile = np.percentile(df_adj.values.flatten(), eps*100);
\* df_adj[df_adj < percentile] = 0.  With a nan among the values the
\* percentile is nan and no comparison is true.
keep_top_entries(m, q) ==
    LET v == sorted_values(m)
    IN  IF \E AUi \in AUs, AUj \in AUs : m[AUi][AUj].den = 0 THEN m
        ELSE [AUi \in AUs |-> [AUj \in AUs |->
                 IF below_percentile(m[AUi][AUj], v, q)
                 THEN Divide(0, 1) ELSE m[AUi][AUj]]]

\* compute_adjacency_matrix(use_labels, AU_method=..., computation_method=...,
\* eps=...) with use_AUs = None, on the files of a finished analysis.
\* eps: [given, percent] stands for None (given = FALSE) or percent / 100.
\* loaded: the files read so far; weights_computed: the method's table of
\* relative frequencies has been computed.
compute_adjacency_matrix(files, use_labels, AU_method, computation_method, eps) ==
    LET call == [use_labels |-> use_labels, AU_method |-> AU_method,
                 computation_method |-> computation_method, eps |-> eps]
        raised(error, loaded, weights) ==
            call @@ [status |-> "raised", error |-> error, loaded |-> loaded,
                     weights_computed |-> weights, matrix |-> <<>>]
        counts_and == aggregate_counts(
                          IF AU_method = "AUc" THEN files.totals.counts_AUc_and
                          ELSE files.totals.counts_AUr_and, use_labels)
        counts_or  == aggregate_counts(
                          IF AU_method = "AUc" THEN files.totals.counts_AUc_or
                          ELSE files.totals.counts_AUr_or, use_labels)
        weights    == IF computation_method = "symm"
                      THEN compute_rel_AU_freq_cond_symm(counts_and, counts_or)
                      ELSE compute_rel_AU_freqs_cond(counts_and)
        loaded     == IF computation_method = "symm"
                      THEN {"counts_and", "counts_or"} ELSE {"counts_and"}
    IN  IF ~(use_labels \subseteq LabelsValidSet)
        THEN raised("AssertionError", {}, FALSE)
        ELSE IF AU_method \notin {"AUc", "AUr"}
        THEN raised("AssertionError", {}, FALSE)
        ELSE IF computation_method = "uncond"
        \* nof_frames is read without its index column and summed to a Series
        \* of two; storing count / Series in one cell raises ValueError
        THEN raised("ValueError", {"counts_and", "nof_frames_per_label"}, FALSE)
        ELSE IF computation_method \notin {"symm", "cond"}
        THEN raised("ValueError", {"counts_and"}, FALSE)
        ELSE IF eps.given /\ eps.percent # 0 /\ ~(0 < eps.percent /\ eps.percent < 100)
        THEN raised("AssertionError", loaded, TRUE)
        ELSE call @@ [status |-> "computed", error |-> "none", loaded |-> loaded,
                      weights_computed |-> TRUE,
                      matrix |-> IF eps.given /\ eps.percent # 0
                                 THEN keep_top_entries(weights, eps.percent)
                                 ELSE weights]

----------------------------------------------------------------------------
(* Inputs and runs of the frequency analysis *)

\* what OpenFace reports for one AU in one frame: <<AUxx_c, AUxx_r>>
AUReadings == {<<0, 1>>, <<1, 0>>, <<NaN, NaN>>}

FrameLabelValues == {0, 3}

Frames ==
    {[label |-> l, AUc |-> <<a[1], b[1]>>, AUr |-> <<a[2], b[2]>>] :
        l \in FrameLabelValues, a \in AUReadings, b \in AUReadings}

FrameSeqs == UNION {[1 .. n -> Frames] : n \in 0 .. MaxSubjectFrames}

FramesS002 ==
    << [label |-> 3,   AUc |-> <<1, 1>>,   AUr |-> <<2, 0>>],
       [label |-> -10, AUc |-> <<1, 0>>,   AUr |-> <<0, 0>>],
       [label |-> 0,   AUc |-> <<NaN, 1>>, AUr |-> <<NaN, 3>>] >>

FramesS003 ==
    << [label |-> 0, AUc |-> <<1, 0>>, AUr |-> <<1, 1>>],
       [label |-> 3, AUc |-> <<0, 1>>, AUr |-> <<0, 0>>] >>

NoUseLists == {{}, {2}, {1, 3}}

UseLabelSets == {{0}, {0, 3}, {6, -6}}

AU_methods == {"AUc", "AUr"}

computation_methods == {"symm", "cond", "uncond"}

eps_None == [given |-> FALSE, percent |-> 0]

\* eps = percent / 100
eps_of(percent) == [given |-> TRUE, percent |-> percent]

\* the calls of compute_adjacency_matrix examined: "symm" and "cond" for
\* every label selection and AU method, with eps = 0.5 for one selection;
\* "uncond" for every selection; and calls with one argument that is not
\* supported (a label 7, AU_method "AU", computation_method "mean", eps = 0
\* or 1.5)
AdjacencyCalls ==
    [use_labels : UseLabelSets, AU_method : AU_methods,
     computation_method : {"symm", "cond"}, eps : {eps_None}]
    \cup [use_labels : {{0, 3}}, AU_method : AU_methods,
          computation_method : {"symm", "cond"}, eps : {eps_of(50)}]
    \cup [use_labels : UseLabelSets, AU_method : {"AUc"},
          computation_method : computation_methods \ {"symm", "cond"},
          eps : {eps_None}]
    \cup [use_labels : {{0, 7}}, AU_method : {"AUc"},
          computation_method : {"symm"}, eps : {eps_None}]
    \cup [use_labels : {{0, 3}}, AU_method : {"AU"},
          computation_method : {"symm"}, eps : {eps_None}]
    \cup [use_labels : {{0, 3}}, AU_method : AU_methods,
          computation_method : {"mean"}, eps : {eps_None}]
    \cup [use_labels : {{0, 3}}, AU_method : {"AUc"},
          computation_method : {"symm", "cond"}, eps : {eps_of(0), eps_of(150)}]

\* frequency_analysis_parallel before the jobs are submitted
ParallelReady ==
    [status |-> "ready", results |-> <<>>, raised |-> {},
     totals |-> ZeroTotals, files |-> NoFiles]

\* dataset.load_labels(subject_id) finds the subject's video label file: in
\* a run that includes the generation of the video labels the files are
\* those it wrote, otherwise the labels read are part of subject_frames
label_file_exists(subj) ==
    video_label_run.status = "none" \/ subj \in video_label_run.written

InitFreq ==
    /\ SliceIdle
    /\ FeatIdle
    /\ CVIdle
    /\ pc = "frequency_analysis"
    /\ \E fr \in FrameSeqs : subject_frames = <<fr, FramesS002, FramesS003>>
    /\ subjects_no_use \in NoUseLists
    /\ seq_run = [status |-> "ready", totals |-> ZeroTotals, files |-> NoFiles]
    /\ par_run = ParallelReady
    /\ adj = NoAdjacency

\* frequency_analysis(): the loop over the subjects, then the attribute
\* lookup os.path.exist raises AttributeError before a file is written
frequency_analysis ==
    /\ seq_run.status = "ready"
    /\ seq_run' = [status |-> "raised",
                   totals |-> sequential_totals(subject_frames,
                                 used_subjects(subject_frames, subjects_no_use),
                                 ZeroTotals),
                   files |-> NoFiles]
    /\ UNCHANGED <<pc, subject_frames, subjects_no_use, par_run, adj,
                   sliceVars, featVars, cvVars>>

\* frequency_analysis_parallel(): the jobs are handed to the worker pool
SubmitJobs ==
    /\ par_run.status = "ready"
    /\ par_run' = [par_run EXCEPT !.status = "running"]
    /\ UNCHANGED <<pc, subject_frames, subjects_no_use, seq_run, adj,
                   sliceVars, featVars, cvVars>>

\* one job _subject_frequency_analysis(subj_id) ends, in any order: it
\* returns its counts, or load_labels raises
JobFinishes(subj) ==
    /\ par_run.status = "running"
    /\ subj \in DOMAIN subject_frames
    /\ subj \notin subjects_no_use
    /\ subj \notin DOMAIN par_run.results
    /\ subj \notin par_run.raised
    /\ par_run' =
          IF label_file_exists(subj)
          THEN [par_run EXCEPT !.results =
                   @ @@ (subj :> subject_frequency_analysis(subject_frames[subj]))]
          ELSE [par_run EXCEPT !.raised = @ \cup {subj}]
    /\ UNCHANGED <<pc, subject_frames, subjects_no_use, seq_run, adj,
                   sliceVars, featVars, cvVars>>

\* all jobs are done: the results are summed and the five files written
JoinAndWrite ==
    /\ par_run.status = "running"
    /\ \A subj \in DOMAIN subject_frames :
          subj \in subjects_no_use \/ subj \in DOMAIN par_run.results
    /\ LET totals == join_results(par_run.results,
                         used_subjects(subject_frames, subjects_no_use), ZeroTotals)
       IN  par_run' = [par_run EXCEPT !.status = "written", !.totals = totals,
                                      !.files = to_csv(totals)]
    /\ UNCHANGED <<pc, subject_frames, subjects_no_use, seq_run, adj,
                   sliceVars, featVars, cvVars>>

\* one call of compute_adjacency_matrix on the files in
\* results/frequency_analysis
ComputeAdjacency ==
    /\ par_run.status = "written"
    /\ adj.status = "none"
    /\ \E call \in AdjacencyCalls :
          adj' = compute_adjacency_matrix(par_run.files, call.use_labels,
                     call.AU_method, call.computation_method, call.eps)
    /\ UNCHANGED <<pc, subject_frames, subjects_no_use, seq_run, par_run,
                   sliceVars, featVars, cvVars>>

\* Parallel(...) re-raises the exception of a job: nothing is joined and
\* nothing is written
ParallelRaises ==
    /\ par_run.status = "running"
    /\ par_run.raised # {}
    /\ par_run' = [par_run EXCEPT !.status = "raised"]
    /\ UNCHANGED <<pc, subject_frames, subjects_no_use, seq_run, adj,
                   sliceVars, featVars, cvVars>>

NextFreq ==
    \/ frequency_analysis
    \/ SubmitJobs
    \/ \E subj \in 1 .. 3 : JobFinishes(subj)
    \/ JoinAndWrite
    \/ ComputeAdjacency

SpecFreq == InitFreq /\ [][NextFreq]_vars

----------------------------------------------------------------------------
(* The two batch jobs with per-subject workers, preprocess_parallel and     *)
(* frequency_analysis_parallel, run on the label files the generation of   *)
(* the video labels left                                                   *)

BatchFrames == {<<>>, FramesS003}

InitBatch ==
    /\ SubjectIdle
    /\ RecordingIdle
    /\ FeatIdle
    /\ CVIdle
    /\ pc = "preprocess"
    /\ \E raw \in SUBSET StageSubjects :
          video_label_run = [status |-> "finished", raw_label_files |-> raw,
                             pending |-> {}, warned |-> StageSubjects \ raw,
                             written |-> raw]
    /\ \E no_use \in {{}, {2}}, z \in {0, 1} :
          preprocess_run = PreprocessReady(StageSubjects \ no_use, TRUE,
                                           StageVideoLabels(z))
    /\ \E fr \in BatchFrames : subject_frames = <<fr, FramesS002, FramesS003>>
    /\ subjects_no_use \in {{}, {2}}
    /\ seq_run = NoRun
    /\ par_run = ParallelReady
    /\ adj = NoAdjacency

NextBatch ==
    \/ preprocess_parallel
    \/ \E subject_id \in StageSubjects : call_subject_preprocessing(subject_id)
    \/ PreprocessParallelEnds
    \/ SubmitJobs
    \/ \E subj \in 1 .. 3 : JobFinishes(subj)
    \/ JoinAndWrite
    \/ ParallelRaises

SpecBatch == InitBatch /\ [][NextBatch]_vars

----------------------------------------------------------------------------
(* Subject_Preprocessor._repair_features.  An entry of the feature table   *)
(* is a fraction [num, den]; den = 0 stands for the IEEE specials nan      *)
(* (num = 0), +inf (num = 1) and -inf (num = -1).  A row keeps its slice   *)
(* id and label of the row index.                                          *)

np_nan == Divide(0, 0)

np_inf == Divide(1, 0)

neg_inf == [num |-> -1, den |-> 0]

Whole(n) == Divide(n, 1)

isna(v) == v = np_nan

WithValues(row, values) ==
    [slice_id |-> row.slice_id, label |-> row.label, values |-> values]

\* features.replace([np.inf, -np.inf], np.nan, inplace=True)
replace_inf(t) ==
    [r \in DOMAIN t |->
        WithValues(t[r], [c \in DOMAIN t[r].values |->
            IF t[r].values[c] \in {np_inf, neg_inf} THEN np_nan
            ELSE t[r].values[c]])]

RECURSIVE SumOfColumn(_, _, _)
SumOfColumn(t, rows, c) ==
    IF rows = {} THEN 0
    ELSE LET r == CHOOSE x \in rows : TRUE
         IN  t[r].values[c].num + SumOfColumn(t, rows \ {r}, c)

\* mutant: the mean over all rows of the table, whatever their label
label_mean_AllRows(t, label, c) ==
    LET rows == {r \in DOMAIN t : ~isna(t[r].values[c])}
    IN  Divide(SumOfColumn(t, rows, c), Cardinality(rows))

\* data_label.mean() for one column: the mean of the entries of the label's
\* rows that are not nan, nan if there is none (the finite entries of the
\* tables examined are whole numbers)
label_mean(t, label, c) ==
    LET rows == {r \in DOMAIN t : t[r].label = label /\ ~isna(t[r].values[c])}
    IN  Divide(SumOfColumn(t, rows, c), Cardinality(rows))

\* for every label: features.loc[label rows] = data_label.fillna(data_label.mean())
fillna_label_mean(t) ==
    [r \in DOMAIN t |->
        WithValues(t[r], [c \in DOMAIN t[r].values |->
            IF isna(t[r].values[c]) THEN label_mean(t, t[r].label, c)
            ELSE t[r].values[c]])]

\* features.fillna(value=strategy, axis=0, inplace=True)
fillna(t, value) ==
    [r \in DOMAIN t |->
        WithValues(t[r], [c \in DOMAIN t[r].values |->
            IF isna(t[r].values[c]) THEN value ELSE t[r].values[c]])]

notna_row(row) == \A c \in DOMAIN row.values : ~isna(row.values[c])

\* features.dropna(axis=0, how="any", inplace=True): changes the table and
\* evaluates to None
dropna(t) == SelectSeq(t, notna_row)

\* returned: what the caller receives (is_none: the value None);
\* frame: the table object the caller passed, after the call
repair_features(t, strat) ==
    LET clean == replace_inf(t)
    IN  CASE strat = "delete" ->
                [status |-> "returned", is_none |-> TRUE, value |-> <<>>,
                 frame |-> dropna(clean)]
          [] strat = "mean" ->
                [status |-> "returned", is_none |-> FALSE,
                 value |-> dropna(fillna_label_mean(clean)),
                 frame |-> dropna(fillna_label_mean(clean))]
          [] strat = "number" ->
                [status |-> "returned", is_none |-> FALSE,
                 value |-> fillna(clean, Whole(0)),
                 frame |-> fillna(clean, Whole(0))]
          [] OTHER ->
                [status |-> "raised", is_none |-> FALSE, value |-> <<>>,
                 frame |-> clean]

\* strategies: "number" stands for an int or float replacement value (0),
\* "median" for any other argument
Strategies == {"mean", "delete", "number", "median"}

TableLabels == {0, 1}

\* the feature values of one slice (two feature columns)
FeatureValues ==
    {<<Whole(1), Whole(2)>>, <<Whole(3), Whole(2)>>, <<np_nan, Whole(2)>>,
     <<np_inf, Whole(2)>>, <<Whole(1), np_nan>>, <<Whole(3), neg_inf>>,
     <<np_nan, np_nan>>}

\* the tables of _process_slices with n slices: one row per slice, slice ids
\* 0, 1, ...
FeatureTables(n) ==
    {[r \in 1 .. n |->
         [slice_id |-> r - 1, label |-> l[r], values |-> v[r]]] :
       l \in [1 .. n -> TableLabels], v \in [1 .. n -> FeatureValues]}

InitRepair ==
    /\ SliceIdle
    /\ ExtractIdle
    /\ FreqIdle
    /\ CVIdle
    /\ pc = "repair_ready"
    /\ \E n \in 1 .. MaxTableRows : table \in FeatureTables(n)
    /\ strategy \in Strategies
    /\ repaired = NotRepaired

\* one call of self._repair_features(features, strategy=...)
RepairFeatures ==
    /\ pc = "repair_ready"
    /\ repaired' = repair_features(table, strategy)
    /\ pc' = "repaired"
    /\ UNCHANGED <<table, strategy, slice_data, sample_rate, fe_settings,
                   features, sliceVars, freqVars, cvVars>>

NextRepair == RepairFeatures

SpecRepair == InitRepair /\ [][NextRepair]_vars

----------------------------------------------------------------------------
(* training/training_functions.py: kfold_CV, with the split of             *)
(* KFold(n_splits=k, shuffle=False) and OpenFace_Features_Dataset          *)

\* dataset.subject_list: unique().sort_values() of the subj_id index level
dataset_subject_list(samples) == SortedSeq(ToSet(samples))

\* size of fold f (0-based): n // k, and one more for the first n % k folds
fold_size(n, k, f) == (n \div k) + (IF f < n % k THEN 1 ELSE 0)

RECURSIVE fold_start(_, _, _)
fold_start(n, k, f) ==
    IF f = 0 THEN 0 ELSE fold_start(n, k, f - 1) + fold_size(n, k, f - 1)

\* mutant: every fold tests the block of the first fold
kfold_test_idxs_FirstBlock(n, k, f) == 0 .. (fold_size(n, k, 0) - 1)

\* test indices of fold f of kf.split(subjects): a block of consecutive indices
kfold_test_idxs(n, k, f) ==
    fold_start(n, k, f) .. (fold_start(n, k, f) + fold_size(n, k, f) - 1)

kfold_train_idxs(n, k, f) == (0 .. (n - 1)) \ kfold_test_idxs(n, k, f)

\* subjects[idxs] for a set of 0-based indices, in ascending index order
take(subjects, idxs) ==
    LET order == SortedSeq(idxs)
    IN  [x \in DOMAIN order |-> subjects[order[x] + 1]]

\* OpenFace_Features_Dataset.get_train_test_idxs: sample indices (0-based)
get_train_test_idxs(samples, test_subjects) ==
    LET subj_mask == [i \in DOMAIN samples |-> samples[i] \in ToSet(test_subjects)]
    IN  [train_idxs |-> SortedSeq({i - 1 : i \in {j \in DOMAIN samples : ~subj_mask[j]}}),
         test_idxs  |-> SortedSeq({i - 1 : i \in {j \in DOMAIN samples : subj_mask[j]}})]

\* KFold raises ValueError for n_splits < 2 and for n_splits > n_samples
kfold_raises(n, k) == k < 2 \/ k > n

\* the twelve metric lists of history[fold]
MetricLists ==
    {"train_loss", "train_acc", "train_cf",
     "train_loss_drop", "train_acc_drop", "train_cf_drop",
     "train_loss_run", "train_acc_run", "train_cf_run",
     "test_loss", "test_acc", "test_cf"}

TrainLists == {"train_loss", "train_acc", "train_cf"}

TrainDropLists == {"train_loss_drop", "train_acc_drop", "train_cf_drop"}

TrainRunLists == {"train_loss_run", "train_acc_run", "train_cf_run"}

TestLists == {"test_loss", "test_acc", "test_cf"}

NoSplit ==
    [train_subjects |-> <<>>, test_subjects |-> <<>>,
     train_idxs |-> <<>>, test_idxs |-> <<>>]

EmptyFoldHistory == NoSplit @@ [name \in MetricLists |-> <<>>]

\* the part of one iteration of the fold loop that prepares the fold's data
fold_split(samples, k, f) ==
    LET subjects == dataset_subject_list(samples)
        n == Len(subjects)
        train_subjects == take(subjects, kfold_train_idxs(n, k, f))
        test_subjects == take(subjects, kfold_test_idxs(n, k, f))
        idxs == get_train_test_idxs(samples, test_subjects)
    IN  [train_subjects |-> train_subjects, test_subjects |-> test_subjects,
         train_idxs |-> idxs.train_idxs, test_idxs |-> idxs.test_idxs]

\* mutant: the layers keep their parameters
reset_params_NoLayerReset(p, f) == p

\* model.apply(reset_params) at the start of fold f (1-based): every layer
\* that has parameters (the convolutions and lin) has reset_parameters, so
\* all parameter tensors are re-initialised in place
reset_params(p, f) == [init |-> f, updates |-> 0]

\* train_epoch: model.train(), one pass of optimizer.step() over the batches
train_epoch(p) == [p EXCEPT !.updates = @ + 1]

\* model.train() at the top of train_epoch
model_train(mode) == TRUE

\* model.eval() at the top of evaluate_epoch
model_eval(mode) == FALSE

\* mutant: the evaluation steps the optimizer as the training pass does
evaluate_train_epoch_WithStep(p) == [p EXCEPT !.updates = @ + 1]

\* evaluate_train_epoch: forward passes under torch.no_grad(), no optimizer
\* step; the mode of the model is left as it is
evaluate_train_epoch(p) == p

\* evaluate_epoch: model.eval(), forward passes under torch.no_grad(), no
\* optimizer step
evaluate_epoch(p) == p

\* what one evaluation (loss, confusion matrix, accuracy) was measured on
Measurement(f, e, p, mode) ==
    [fold |-> f, epoch |-> e, params |-> p, training |-> mode]

\* mutant: the lists hold only the last value
AppendTo_Overwrite(h, names, m) ==
    [name \in DOMAIN h |-> IF name \in names THEN <<m>> ELSE h[name]]

\* history[fold][name].append(...) for every list of a family
AppendTo(h, names, m) ==
    [name \in DOMAIN h |-> IF name \in names THEN Append(h[name], m) ELSE h[name]]

\* model.state_dict(): a dictionary of references to the parameter tensors
\* of the model; "made_at" records the values the tensors held when the
\* dictionary was made, which the dictionary itself does not store
state_dict(p) == [kind |-> "state_dict_of_model", made_at |-> p]

\* the values read through a state_dict: those the model's tensors hold now
state_dict_value(sd, p) == p

----------------------------------------------------------------------------
(* Inputs and run of the cross-validation *)

SubjectIds == 1 .. MaxSubjects

SamplesPerSubject == {1, 2}

RECURSIVE samples_of(_, _)
\* the subj_id of every sample, sorted by subj_id as _load_data leaves it
samples_of(subjects, count) ==
    IF subjects = <<>> THEN <<>>
    ELSE [x \in 1 .. count[Head(subjects)] |-> Head(subjects)]
         \o samples_of(Tail(subjects), count)

Datasets ==
    UNION {{samples_of(SortedSeq(S), count) : count \in [S -> SamplesPerSubject]} :
              S \in (SUBSET SubjectIds) \ {{}}}

\* test accuracies in percent
AccValues == {0, 50, 100}

AccPlans(k, n) == [1 .. k -> [1 .. n -> AccValues]]

ConstantPlan(k, n) == [f \in 1 .. k |-> [e \in 1 .. n |-> 50]]

ModelFresh ==
    /\ fold = 0
    /\ history = <<>>
    /\ epoch = 0
    /\ params = InitialParams
    /\ training = TRUE
    /\ best_acc = 0
    /\ best_params = NoParams
    /\ returned = NotReturned

\* the split is varied; the accuracies are the same in every epoch
InitCV ==
    /\ DatasetIdle
    /\ SliceIdle
    /\ FeatIdle
    /\ FreqIdle
    /\ pc = "cv_ready"
    /\ dataset \in Datasets
    /\ n_splits \in 0 .. (MaxSubjects + 1)
    /\ num_epochs \in {0, 1}
    /\ test_accs = ConstantPlan(n_splits, num_epochs)
    /\ ModelFresh

TrainDatasets == {<<1, 2, 2, 3>>}

TrainSplits == {2, 3}

\* the accuracies are varied; the split is one of two
InitTrain ==
    /\ DatasetIdle
    /\ SliceIdle
    /\ FeatIdle
    /\ FreqIdle
    /\ pc = "cv_ready"
    /\ dataset \in TrainDatasets
    /\ n_splits \in TrainSplits
    /\ num_epochs \in 0 .. MaxEpochs
    /\ test_accs \in AccPlans(n_splits, num_epochs)
    /\ ModelFresh

\* kfold_CV up to the first iteration of "for fold, ... in enumerate(kf.split(subjects))"
KFoldCVStart ==
    /\ pc = "cv_ready"
    /\ history' = [f \in 1 .. n_splits |-> EmptyFoldHistory]
    /\ best_params' = NoParams
    /\ best_acc' = 0
    /\ pc' = IF kfold_raises(Len(dataset_subject_list(dataset)), n_splits)
             THEN "cv_raised" ELSE "cv_fold"
    /\ UNCHANGED <<dsVars, splitVars, fold, epoch, params, training, returned,
                   sliceVars, featVars, freqVars>>

\* one iteration of the fold loop up to the epoch loop: reset of the model,
\* split, and the initial evaluation (evaluate_train_epoch on the training
\* set, evaluate_epoch on the training set, evaluate_epoch on the test set)
RunFold ==
    /\ pc = "cv_fold"
    /\ fold < n_splits
    /\ fold = 0 \/ epoch = num_epochs
    /\ LET f == fold + 1
           p == reset_params(params, f)
           h0 == fold_split(dataset, n_splits, fold)
                    @@ [name \in MetricLists |-> history[f][name]]
           \* evaluate_train_epoch(model, train_loader, ...)
           h1 == AppendTo(h0, TrainDropLists, Measurement(f, 0, p, training))
           p1 == evaluate_train_epoch(p)
           \* evaluate_epoch(model, train_loader, ...)
           m2 == model_eval(training)
           h2 == AppendTo(h1, TrainLists, Measurement(f, 0, p1, m2))
           p2 == evaluate_epoch(p1)
           \* evaluate_epoch(model, test_loader, ...)
           m3 == model_eval(m2)
           h3 == AppendTo(h2, TestLists, Measurement(f, 0, p2, m3))
           p3 == evaluate_epoch(p2)
       IN  /\ params' = p3
           /\ history' = [history EXCEPT ![f] = h3]
           /\ training' = m3
    /\ fold' = fold + 1
    /\ epoch' = 0
    /\ UNCHANGED <<pc, dsVars, splitVars, best_acc, best_params, returned,
                   sliceVars, featVars, freqVars>>

\* one iteration of the epoch loop: train_epoch, evaluate_epoch on the test
\* and on the training set, evaluate_train_epoch, the best-model test and
\* the appends to history[fold]
RunEpoch ==
    /\ pc = "cv_fold"
    /\ fold >= 1
    /\ epoch < num_epochs
    /\ LET e == epoch + 1
           \* train_epoch(model, train_loader, ...): the running metrics are
           \* those of the pass itself
           m1 == model_train(training)
           p1 == train_epoch(params)
           run == Measurement(fold, e, p1, m1)
           \* evaluate_epoch(model, test_loader, ...)
           m2 == model_eval(m1)
           test == Measurement(fold, e, p1, m2)
           p2 == evaluate_epoch(p1)
           \* evaluate_epoch(model, train_loader, ...)
           m3 == model_eval(m2)
           train == Measurement(fold, e, p2, m3)
           p3 == evaluate_epoch(p2)
           \* evaluate_train_epoch(model, train_loader, ...)
           drop == Measurement(fold, e, p3, m3)
           p4 == evaluate_train_epoch(p3)
           test_acc == test_accs[fold][e]
           h1 == AppendTo(history[fold], TrainRunLists, run)
           h2 == AppendTo(h1, TrainLists, train)
           h3 == AppendTo(h2, TrainDropLists, drop)
           h4 == AppendTo(h3, TestLists, test)
       IN  /\ params' = p4
           /\ history' = [history EXCEPT ![fold] = h4]
           /\ training' = m3
           /\ IF test_acc > best_acc
              THEN /\ best_acc' = test_acc
                   /\ best_params' = state_dict(p4)
              ELSE UNCHANGED <<best_acc, best_params>>
    /\ epoch' = epoch + 1
    /\ UNCHANGED <<pc, dsVars, splitVars, fold, returned, sliceVars, featVars, freqVars>>

\* the loop is over: summary and "return history, best_params"; the caller
\* (train.py) saves what best_params holds then
KFoldCVReturn ==
    /\ pc = "cv_fold"
    /\ fold = n_splits
    /\ epoch = num_epochs
    /\ returned' =
          IF best_params = NoParams
          THEN [status |-> "returned", is_none |-> TRUE, value |-> InitialParams]
          ELSE [status |-> "returned", is_none |-> FALSE,
                value |-> state_dict_value(best_params, params)]
    /\ pc' = "cv_done"
    /\ UNCHANGED <<dsVars, splitVars, fold, history, epoch, params, training, best_acc,
                   best_params, sliceVars, featVars, freqVars>>

NextCV == KFoldCVStart \/ RunFold \/ RunEpoch \/ KFoldCVReturn

SpecCV == InitCV /\ [][NextCV]_vars

SpecTrain == InitTrain /\ [][NextCV]_vars

----------------------------------------------------------------------------
(* datasets/OpenFace.py: the labels of OpenFace_Features_Dataset *)

\* self.df.index.get_level_values("label").unique().sort_values()
labels_list(lbls) == SortedSeq(ToSet(lbls))

InPainLabels(label) == label \in PainSet

InBaseLabels(label) == label \in labels_base

pain_labels_list(lbls) == SelectSeq(labels_list(lbls), InPainLabels)

base_labels_list(lbls) == SelectSeq(labels_list(lbls), InBaseLabels)

\* self.classes: {i: base_label} updated with {i + len(classes): pain_label}
classes(lbls) ==
    LET base == base_labels_list(lbls)
        pain == pain_labels_list(lbls)
    IN  [i \in 0 .. Len(base) + Len(pain) - 1 |->
            IF i < Len(base) THEN base[i + 1] ELSE pain[i - Len(base) + 1]]

\* self.labels[self.labels == label] = index, on the array as it is by then
assign_index(lbls, label, index) ==
    [x \in DOMAIN lbls |-> IF lbls[x] = label THEN index ELSE lbls[x]]

\* one of the two loops of _transform_labels, from position i of the list
RECURSIVE assign_indices(_, _, _, _)
assign_indices(lbls, list, offset, i) ==
    IF i > Len(list) THEN lbls
    ELSE assign_indices(assign_index(lbls, list[i], offset + i - 1),
                        list, offset, i + 1)

\* _transform_labels: the base labels first, then the pain labels
transform_labels(lbls) ==
    assign_indices(assign_indices(lbls, base_labels_list(lbls), 0, 1),
                   pain_labels_list(lbls), Len(base_labels_list(lbls)), 1)

\* the labels of the slices in a feature file
SampleLabelValues == {0, 1, 2, -1, 100, 200}

SampleLabelSeqs == UNION {[1 .. n -> SampleLabelValues] : n \in 1 .. MaxSamples}

InitDataset ==
    /\ SliceIdle
    /\ FeatIdle
    /\ FreqIdle
    /\ dataset = <<>>
    /\ n_splits = 0
    /\ num_epochs = 0
    /\ test_accs = <<>>
    /\ ModelFresh
    /\ pc = "features_file"
    /\ sample_labels \in SampleLabelSeqs
    /\ ds = [status |-> "none"]

\* OpenFace_Features_Dataset.__init__ with use_labels = None
ConstructDataset ==
    /\ pc = "features_file"
    /\ ds' = [status |-> "constructed",
              labels_list |-> labels_list(sample_labels),
              classes |-> classes(sample_labels),
              num_classes |-> Len(labels_list(sample_labels)),
              labels |-> transform_labels(sample_labels)]
    /\ pc' = "dataset_constructed"
    /\ UNCHANGED <<sample_labels, splitVars, fold, history, epoch, params,
                   training, best_acc, best_params, returned, sliceVars,
                   featVars, freqVars>>

NextDataset == ConstructDataset

SpecDataset == InitDataset /\ [][NextDataset]_vars

----------------------------------------------------------------------------
(* The pipeline as a whole: one of its parts is run *)

Init == InitSlice \/ InitStages \/ InitFeat \/ InitRepair \/ InitFreq
           \/ InitVideoLabels \/ InitBatch \/ InitDataset \/ InitCV \/ InitTrain

Next == NextSlice \/ NextStages \/ NextFeat \/ NextRepair \/ NextFreq
           \/ NextVideoLabels \/ NextBatch \/ NextDataset \/ NextCV

Spec == Init /\ [][Next]_vars

----------------------------------------------------------------------------
(* Properties of interval segmentation and slice extraction (SpecSlice) *)

RECURSIVE SumSeq(_)
SumSeq(x) == IF x = <<>> THEN 0 ELSE Head(x) + SumSeq(Tail(x))

Sliced == pc = "sliced"

TotalFrames == Len(labels)

NofIntervals == Len(intervals.start_idxs)

\* the label of the first frame of interval k, as it is in the recording
RawLabel(k) == labels[intervals.start_idxs[k] + 1]

RawPreLabel(k) == IF k = 1 THEN NaN ELSE RawLabel(k - 1)

PreLabel(k) == IF k = 1 THEN NaN ELSE intervals.interval_labels[k - 1]

PostLabel(k) == IF k = NofIntervals THEN NaN ELSE intervals.interval_labels[k + 1]

PreDuration(k) == IF k = 1 THEN NaN ELSE intervals.durations[k - 1]

PostDuration(k) == IF k = NofIntervals THEN NaN ELSE intervals.durations[k + 1]

BaselineLabelled(x) == ~IsNaN(x) /\ (x = 0 \/ x \in labels_base)

PainSlicesOf(k) ==
    {s \in DOMAIN slices :
        /\ intervals.interval_labels[k] \in PainSet
        /\ slices[s].label = intervals.interval_labels[k]
        /\ slices[s].start_idx = intervals.start_idxs[k]
              + config.slice_shifts[get_label_group(slices[s].label)] * f_sampling}

\* C1: for every non-empty label sequence of length N the intervals partition
\* the frames: first start 0, last end N-1, start[i+1] = end[i]+1,
\* duration[i] = end[i]-start[i]+1 >= 1, and the durations sum to N.
C1_IntervalsPartition ==
    Sliced =>
        LET s == intervals.start_idxs
            e == intervals.end_idxs
            d == intervals.durations
        IN  /\ Len(s) >= 1 /\ Len(e) = Len(s) /\ Len(d) = Len(s)
            /\ s[1] = 0
            /\ e[Len(s)] = TotalFrames - 1
            /\ \A k \in 1 .. Len(s) - 1 : s[k + 1] = e[k] + 1
            /\ \A k \in 1 .. Len(s) : d[k] = e[k] - s[k] + 1 /\ d[k] >= 1
            /\ SumSeq(d) = TotalFrames

C1_Witness ==
    /\ Sliced
    /\ TotalFrames = MaxFrames
    /\ NofIntervals >= 3
    /\ \E k \in 1 .. NofIntervals : intervals.durations[k] >= 2

\* C2: an interval's label is changed iff its raw label is exactly 0 and the
\* preceding interval's label is a pain label; it then becomes 100 x that pain
\* label.  Every other interval keeps its raw label (a 0 interval that is first
\* in the recording or that follows an invalid label stays 0).
C2_RelabelOnlyAfterPain ==
    Sliced =>
        \A k \in 1 .. NofIntervals :
            IF Eq(RawLabel(k), 0) /\ Isin(RawPreLabel(k), PainSet)
            THEN intervals.interval_labels[k] = 100 * RawPreLabel(k)
            ELSE intervals.interval_labels[k] = RawLabel(k)

\* C3 as stated: exactly one pain slice, starting at start+shift*fs, for every
\* interval with a pain label whose neighbours are baseline-labelled, whose
\* predecessor lasts at least pre_interval_min_length, which itself lasts at
\* least interval_min_length, and with shift+length-duration <= post_duration;
\* no pain slice for any other interval.
C3_QualifiesAsStated(k) ==
    LET lab == intervals.interval_labels[k]
    IN  /\ Isin(lab, PainSet)
        /\ BaselineLabelled(PreLabel(k))
        /\ BaselineLabelled(PostLabel(k))
        /\ LET g == get_label_group(lab)
           IN  /\ PreDuration(k) >= config.pre_interval_min_lengths[g]
               /\ intervals.durations[k] >= config.interval_min_lengths[g] * f_sampling
               /\ config.slice_shifts[g] * f_sampling
                    + config.slice_lengths[g] * f_sampling
                    - intervals.durations[k] <= PostDuration(k)

C3_QualifiesAmended(k) ==
    LET lab == intervals.interval_labels[k]
    IN  /\ Isin(lab, PainSet)
        /\ BaselineLabelled(PreLabel(k))
        /\ BaselineLabelled(PostLabel(k))
        /\ LET g == get_label_group(lab)
           IN  /\ PreDuration(k) >= config.pre_interval_min_lengths[g]
               /\ intervals.durations[k]
                    >= config.interval_min_lengths[g] * f_sampling - 2
               /\ config.slice_shifts[g] * f_sampling
                    + config.slice_lengths[g] * f_sampling
                    - intervals.durations[k] <= PostDuration(k)

C4_ScenarioSlices ==
    (Sliced /\ labels = ScenarioLabels /\ f_sampling = 1 /\ config = ScenarioConfig) =>
        /\ Cardinality({s \in DOMAIN slices : slices[s].label \in PainSet}) = 1
        /\ \E s \in DOMAIN slices :
              /\ slices[s].label = 1
              /\ slices[s].start_idx = 3
              /\ slices[s].end_idx = 7
        /\ Cardinality({s \in DOMAIN slices : slices[s].label \in labels_base}) = 1
        /\ \E s \in DOMAIN slices : slices[s].label = 100

\* C5: every slice window [start_idx, end_idx] lies inside the channel data:
\* 0 <= start_idx and end_idx <= total_frames - 1.
C5_WindowInsideData ==
    Sliced =>
        \A s \in DOMAIN slices :
            0 <= slices[s].start_idx /\ slices[s].end_idx <= TotalFrames - 1

\* C6: all slices of the same pain/baseline group hold the same number of
\* frames (no partial slice), also a slice from the last interval.
C6_EqualFrameCounts ==
    Sliced =>
        \A s, t \in DOMAIN slices :
            get_label_group(slices[s].label) = get_label_group(slices[t].label)
                => Len(slices[s].glob_idx) = Len(slices[t].glob_idx)

----------------------------------------------------------------------------
(* Properties of feature extraction (SpecFeat) *)

FeatureCallDone == pc \in {"extracted", "raised"}

InColumnOrder ==
    LET cols == col_idx(slice_data.columns, fe_settings)
    IN  /\ Len(cols) = Len(features.features)
        /\ \A i \in DOMAIN cols :
              /\ features.features[i].channel = cols[i].channel
              /\ features.features[i].feature = cols[i].feature

UsesSplitOnD1 ==
    \E ch \in DOMAIN fe_settings.d1 : \E i \in DOMAIN fe_settings.d1[ch] :
        fe_settings.d1[ch][i] = "signal_split_equal_part_mean"

\* C7: for every slice, whatever its content, _extract_features_from_slice
\* returns exactly nof_features values (the sum of the lengths of the
\* configured function lists of base signal, first and second derivative),
\* in the (channel, feature) order of the column index of _process_slices.
C7_AlwaysNofFeatures ==
    FeatureCallDone =>
        /\ features.status = "returned"
        /\ Len(features.features) = nof_features(fe_settings)
        /\ InColumnOrder

\* C7, the failing case: a slice with rows in it (constant channels) on which
\* the call raises instead of returning a feature vector
C7_RaisesOnSlice ==
    /\ pc = "raised"
    /\ slice_data.nrows >= 2
    /\ slice_data.content = "constant"
    /\ ~UsesSplitOnD1

\* What the code does keep: a call that returns, returns nof_features values
\* in column order; it returns for every slice whose second derivative has at
\* least sample_rate (>= 1) samples, unless a split function is configured on
\* the first derivative (which is then run with the default rate).
CountAndOrderWhenReturned ==
    /\ pc = "extracted" =>
          /\ features.status = "returned"
          /\ Len(features.features) = nof_features(fe_settings)
          /\ InColumnOrder
    /\ (FeatureCallDone /\ slice_data.nrows >= sample_rate + 4 /\ ~UsesSplitOnD1)
          => pc = "extracted"
    /\ pc = "raised" => features.features = <<>>

ReturnedAllBranches ==
    /\ pc = "extracted"
    /\ slice_data.content \in {"constant", "zero"}
    /\ slice_data.columns[1] = "AU04_r"
    /\ DOMAIN fe_settings.base = FeatureChannels
    /\ DOMAIN fe_settings.d1 = {"AU02_r"}
    /\ DOMAIN fe_settings.d2 = {"AU01_r"}
    /\ Len(features.features) >= 6

----------------------------------------------------------------------------
(* Properties of the frequency analysis and the adjacency (SpecFreq) *)

SymmetricCounts(counts) ==
    \A label \in LabelsValidSet : \A AUi \in AUs, AUj \in AUs :
        counts[label][AUi][AUj] = counts[label][AUj][AUi]

SymmetricTotals(t) ==
    /\ SymmetricCounts(t.counts_AUc_and)
    /\ SymmetricCounts(t.counts_AUc_or)
    /\ SymmetricCounts(t.counts_AUr_and)
    /\ SymmetricCounts(t.counts_AUr_or)

\* C8: for the "symm" method the adjacency is symmetric: the AND-count and
\* the OR-count of count_pair_occurrences are the same for (AUi, AUj) and
\* (AUj, AUi), for every subject and in the written totals, and the entry
\* adjacency(AUi, AUj) is the entry adjacency(AUj, AUi) (a nan entry, the
\* quotient of two zero counts, is mirrored by a nan entry).
C8_SymmAdjacencySymmetric ==
    /\ \A subj \in DOMAIN par_run.results : SymmetricTotals(par_run.results[subj])
    /\ SymmetricTotals(par_run.files.totals)
    /\ (adj.status = "computed" /\ adj.computation_method = "symm") =>
          \A AUi \in AUs, AUj \in AUs : adj.matrix[AUi][AUj] = adj.matrix[AUj][AUi]

\* an adjacency whose off-diagonal entry is a proper fraction, computed from
\* frames of which some have a NaN reading in the first column only
C8_Witness ==
    /\ adj.status = "computed"
    /\ adj.computation_method = "symm"
    /\ ~adj.eps.given
    /\ adj.matrix[1][2].num >= 1
    /\ adj.matrix[1][2].den > adj.matrix[1][2].num
    /\ 2 \notin subjects_no_use
    /\ adj.use_labels = {0, 3}

BothAnalysesDone == seq_run.status = "raised" /\ par_run.status = "written"

\* C9: for the same subject list and exclusion list, frequency_analysis and
\* frequency_analysis_parallel produce identical aggregated totals (the four
\* pair-count tables and the per-label frame totals), whatever the order in
\* which the jobs finish.
C9_SequentialEqualsParallel ==
    BothAnalysesDone => seq_run.files = par_run.files

\* What the code does keep: the totals the sequential loop has accumulated
\* when it raises are the totals the parallel analysis writes.
AccumulatedTotalsAgree ==
    BothAnalysesDone => seq_run.totals = par_run.totals

----------------------------------------------------------------------------
(* Properties of the cross-validation (SpecCV) *)

SubjectSet == ToSet(dataset)

NoDuplicates(q) == Cardinality(ToSet(q)) = Len(q)

FoldsTesting(subj) ==
    {f \in 1 .. n_splits : subj \in ToSet(history[f].test_subjects)}

NofSubjects == Cardinality(SubjectSet)

CVEnded == pc \in {"cv_done", "cv_raised"}

EachSubjectTestedOnce ==
    \A subj \in SubjectSet : Cardinality(FoldsTesting(subj)) = 1

FoldIsPartition(f) ==
    /\ ToSet(history[f].train_subjects) \cap ToSet(history[f].test_subjects) = {}
    /\ ToSet(history[f].train_subjects) \cup ToSet(history[f].test_subjects)
          = SubjectSet
    /\ NoDuplicates(history[f].train_subjects \o history[f].test_subjects)
    /\ ToSet(history[f].train_idxs) \cap ToSet(history[f].test_idxs) = {}
    /\ ToSet(history[f].train_idxs) \cup ToSet(history[f].test_idxs)
          = 0 .. (Len(dataset) - 1)
    /\ \A i \in DOMAIN dataset :
          (i - 1) \in ToSet(history[f].test_idxs)
              <=> dataset[i] \in ToSet(history[f].test_subjects)

\* C10 as stated: in kfold_CV with k folds over the subject list, for every
\* k <= number of subjects, every subject is a test subject in exactly one
\* fold, and in each fold the training subjects and the test subjects are
\* disjoint and together are the whole subject list.
C10_KFoldPartition_AsStated ==
    (CVEnded /\ n_splits <= NofSubjects) =>
        /\ EachSubjectTestedOnce
        /\ \A f \in 1 .. n_splits : FoldIsPartition(f)

\* C10 amended: for 2 <= k <= number of subjects kfold_CV runs its k folds,
\* every subject is a test subject in exactly one of them, and in each fold
\* the training and the test subjects (and samples) are disjoint and together
\* are the whole subject list; for k < 2 (and for k > number of subjects) the
\* split raises before the first fold.
C10_KFoldPartition ==
    /\ pc \in {"cv_fold", "cv_done"} => \A f \in 1 .. fold : FoldIsPartition(f)
    /\ pc = "cv_done" => (fold = n_splits /\ EachSubjectTestedOnce)
    /\ (CVEnded /\ 2 <= n_splits /\ n_splits <= NofSubjects) => pc = "cv_done"
    /\ pc = "cv_raised" => (fold = 0 /\ (n_splits < 2 \/ n_splits > NofSubjects))

\* a finished cross-validation with folds of unequal size, fewer folds than
\* subjects and a subject with more than one sample
C10_Witness ==
    /\ pc = "cv_done"
    /\ n_splits >= 2
    /\ n_splits < Cardinality(SubjectSet)
    /\ Cardinality(SubjectSet) % n_splits # 0
    /\ Len(dataset) > Cardinality(SubjectSet)

----------------------------------------------------------------------------
(* Properties of the training loop of kfold_CV (SpecTrain) *)

Moments == {<<f, e>> : f \in 1 .. n_splits, e \in 1 .. num_epochs}

HighestTestAcc ==
    CHOOSE a \in AccValues :
        /\ \E m \in Moments : test_accs[m[1]][m[2]] = a
        /\ \A m \in Moments : test_accs[m[1]][m[2]] <= a

BestMoments == {m \in Moments : test_accs[m[1]][m[2]] = HighestTestAcc}

\* the parameters the model had at the end of epoch e of fold f (1-based):
\* those the test evaluation of that epoch was measured on
ParamsAtEndOf(f, e) == history[f]["test_acc"][e + 1].params

\* C11: when kfold_CV returns, best_params holds the parameter values the
\* model had at the end of the (fold, epoch) with the highest test accuracy
\* observed over all folds and epochs, whatever training steps and resets
\* came afterwards.  (Stated for runs in which some epoch has an accuracy
\* above 0, and accepting any of the epochs that share the highest accuracy.)
C11_BestParamsRetained ==
    (pc = "cv_done" /\ Moments # {} /\ HighestTestAcc > 0) =>
        /\ ~returned.is_none
        /\ \E m \in BestMoments : returned.value = ParamsAtEndOf(m[1], m[2])

\* C11, the failing case: best_params was taken in the first fold and what
\* the caller receives are the parameters of the end of the last fold
C11_ReturnedParamsMoved ==
    /\ pc = "cv_done"
    /\ ~returned.is_none
    /\ best_params.made_at.init = 1
    /\ returned.value = [init |-> n_splits, updates |-> num_epochs]
    /\ returned.value # best_params.made_at

\* What the code does: the returned best_params are the parameters the model
\* has when kfold_CV returns, and None when no epoch had an accuracy above 0.
ReturnedParamsAreFinalParams ==
    pc = "cv_done" =>
        /\ ~returned.is_none => returned.value = params
        /\ returned.is_none <=> (Moments = {} \/ HighestTestAcc = 0)

AllMeasurements(f) ==
    UNION {ToSet(history[f][name]) : name \in MetricLists}

\* C12: at the start of every fold, before the fold's initial evaluation and
\* its first training step, all parameters of the model are re-initialised:
\* the initial evaluation of fold f is measured on parameters initialised in
\* fold f with no update, and no measurement or state of fold f carries an
\* update made in an earlier fold.
C12_ParamsResetPerFold ==
    (pc \in {"cv_fold", "cv_done"} /\ fold >= 1) =>
        /\ params = [init |-> fold, updates |-> epoch]
        /\ \A f \in 1 .. fold :
              /\ \A name \in MetricLists \ TrainRunLists :
                    history[f][name][1].params = [init |-> f, updates |-> 0]
              /\ \A m \in AllMeasurements(f) :
                    m.params = [init |-> f, updates |-> m.epoch]

\* a later fold has begun after an earlier fold was trained
C12_Witness ==
    /\ pc = "cv_fold"
    /\ fold >= 2
    /\ num_epochs >= 1
    /\ epoch = 0
    /\ Len(history[fold - 1]["train_loss_run"]) = num_epochs
    /\ params = [init |-> fold, updates |-> 0]

InEpochOrder(list, first) ==
    \A i \in DOMAIN list : list[i].epoch = first + i - 1

\* C19: when kfold_CV returns, history has one entry per fold holding the
\* fold's train and test subjects and, in epoch order, the train_*, test_*
\* and train_*_drop lists with num_epochs+1 entries (the pre-training
\* evaluation first) and the train_*_run lists with num_epochs entries; the
\* entries of a fold all stem from that fold.
C19_HistoryComplete ==
    pc = "cv_done" =>
        /\ DOMAIN history = 1 .. n_splits
        /\ \A f \in 1 .. n_splits :
              /\ history[f].train_subjects
                    = fold_split(dataset, n_splits, f - 1).train_subjects
              /\ history[f].test_subjects
                    = fold_split(dataset, n_splits, f - 1).test_subjects
              /\ \A name \in MetricLists \ TrainRunLists :
                    /\ Len(history[f][name]) = num_epochs + 1
                    /\ InEpochOrder(history[f][name], 0)
              /\ \A name \in TrainRunLists :
                    /\ Len(history[f][name]) = num_epochs
                    /\ InEpochOrder(history[f][name], 1)
              /\ \A m \in AllMeasurements(f) : m.fold = f

\* a returned cross-validation of three folds with two epochs each
C19_Witness ==
    /\ pc = "cv_done"
    /\ n_splits = 3
    /\ num_epochs = 2
    /\ Len(history[3]["test_acc"]) = 3
    /\ Len(history[1]["train_acc_run"]) = 2

----------------------------------------------------------------------------
(* Maximal runs of _compute_intervals_info (SpecSlice) *)

\* positions 1 .. n-1 (0-based) whose frame carries another label than the
\* frame before it; the missing-value marker is one label like any other
LabelChanges == {i \in 1 .. TotalFrames - 1 : labels[i + 1] # labels[i]}

\* C20: every interval is a maximal run: all its frames carry the same raw
\* label, consecutive intervals carry different raw labels, and there are
\* 1 + (number of label changes) intervals; also when the trailing frames are
\* unlabeled (carry the missing-value marker).
C20_IntervalsAreMaximalRuns ==
    Sliced =>
        /\ \A k \in 1 .. NofIntervals :
              \A i \in intervals.start_idxs[k] .. intervals.end_idxs[k] :
                  labels[i + 1] = RawLabel(k)
        /\ \A k \in 1 .. NofIntervals - 1 : RawLabel(k) # RawLabel(k + 1)
        /\ NofIntervals = 1 + Cardinality(LabelChanges)

\* C20, the failing case: two trailing unlabeled frames end up as two intervals
C20_UnlabeledTailSplit ==
    /\ Sliced
    /\ TotalFrames >= 3
    /\ ~IsNaN(labels[1])
    /\ IsNaN(labels[TotalFrames]) /\ IsNaN(labels[TotalFrames - 1])
    /\ intervals.start_idxs[NofIntervals] = TotalFrames - 1
    /\ intervals.start_idxs[NofIntervals - 1] = TotalFrames - 2

\* What the code does: the intervals are maximal runs wherever the frames are
\* labelled, and every unlabeled frame is an interval of its own.
MaximalRunsOfLabelledFrames ==
    Sliced =>
        /\ \A k \in 1 .. NofIntervals :
              \A i \in intervals.start_idxs[k] .. intervals.end_idxs[k] :
                  labels[i + 1] = RawLabel(k)
        /\ \A k \in 1 .. NofIntervals - 1 :
              RawLabel(k) = RawLabel(k + 1) => IsNaN(RawLabel(k))
        /\ \A k \in 1 .. NofIntervals :
              IsNaN(RawLabel(k)) => intervals.durations[k] = 1

----------------------------------------------------------------------------
(* The calls of the feature functions (SpecFeat) *)

WithRate(call) == call.kw # "none"

\* the calls made with the sample-rate argument, in the order they were made
FirstCalls == SelectSeq(features.trace, WithRate)

\* C17: every configured feature function is first called with the
\* sample-rate argument; a call without it is made exactly once, directly
\* after a failed call with it and for the same function; when that second
\* call fails too the exception leaves the method, no further function is
\* called and no feature row is produced.
C17_RetryOnceWithoutRate ==
    FeatureCallDone =>
        LET t    == features.trace
            cols == col_idx(slice_data.columns, fe_settings)
        IN  /\ \A i \in DOMAIN t :
                  /\ ~WithRate(t[i]) <=>
                        (i > 1 /\ WithRate(t[i - 1]) /\ t[i - 1].raised)
                  /\ ~WithRate(t[i]) => t[i].func = t[i - 1].func
                  /\ (WithRate(t[i]) /\ t[i].raised) => i < Len(t)
                  /\ (~WithRate(t[i]) /\ t[i].raised) => i = Len(t)
            /\ features.status = "raised" <=>
                  (t # <<>> /\ ~WithRate(t[Len(t)]) /\ t[Len(t)].raised)
            /\ features.status = "raised" => features.features = <<>>
            /\ features.status = "returned" => Len(FirstCalls) = Len(cols)
            /\ Len(FirstCalls) <= Len(cols)
            /\ \A i \in DOMAIN FirstCalls :
                  \E suffix \in {"", "_d1", "_d2"} :
                      FirstCalls[i].func \o suffix = cols[i].feature

\* a function whose first call failed and whose second call returned, followed
\* by a function whose two calls both failed
C17_Witness ==
    /\ pc = "raised"
    /\ \E i \in DOMAIN features.trace :
          /\ i + 3 = Len(features.trace)
          /\ WithRate(features.trace[i]) /\ features.trace[i].raised
          /\ ~features.trace[i + 1].raised
          /\ features.trace[i + 2].raised
          /\ features.trace[i + 3].raised

----------------------------------------------------------------------------
(* Properties of _repair_features (SpecRepair) *)

IsCorrupt(v) == v.den = 0

\* the rows of the label group of row r whose entry in column c is not corrupt
SoundInGroup(r, c) ==
    {x \in DOMAIN table : table[x].label = table[r].label
                            /\ ~IsCorrupt(table[x].values[c])}

Unrepairable(r) ==
    \E c \in DOMAIN table[r].values :
        IsCorrupt(table[r].values[c]) /\ SoundInGroup(r, c) = {}

\* v is the mean of the sound entries of column c in the label group of row r
IsGroupMean(v, r, c) ==
    /\ ~IsCorrupt(v)
    /\ v.num * Cardinality(SoundInGroup(r, c))
          = v.den * SumOfColumn(table, SoundInGroup(r, c), c)

\* C16: after _repair_features with strategy "mean" the returned table has no
\* nan, +inf or -inf entry; its rows are, in their order, the rows of the
\* input of which no corrupt feature lacks a non-corrupt value in the row's
\* label group; in a kept row every corrupt entry is replaced by the mean of
\* the non-corrupt entries of that feature in the label group and every
\* other entry is unchanged.
C16_MeanRepair ==
    (pc = "repaired" /\ strategy = "mean") =>
        LET out  == repaired.value
            kept == {r \in DOMAIN table : ~Unrepairable(r)}
        IN  /\ repaired.status = "returned" /\ ~repaired.is_none
            /\ Len(out) = Cardinality(kept)
            /\ \A o \in DOMAIN out :
                  \E r \in kept :
                      /\ out[o].slice_id = table[r].slice_id
                      /\ out[o].label = table[r].label
                      /\ Cardinality({x \in kept : x <= r}) = o
                      /\ \A c \in DOMAIN table[r].values :
                            /\ ~IsCorrupt(out[o].values[c])
                            /\ IF IsCorrupt(table[r].values[c])
                               THEN IsGroupMean(out[o].values[c], r, c)
                               ELSE out[o].values[c] = table[r].values[c]

\* a table of three rows of which one is dropped and another has an infinite
\* entry replaced by a mean
C16_Witness ==
    /\ pc = "repaired"
    /\ strategy = "mean"
    /\ Len(table) = 3
    /\ Len(repaired.value) = 2
    /\ \E r \in DOMAIN table : Unrepairable(r)
    /\ \E r \in DOMAIN table :
          /\ ~Unrepairable(r)
          /\ table[r].values[1] = np_inf
          /\ Cardinality(SoundInGroup(r, 1)) >= 1

----------------------------------------------------------------------------
(* Properties of compute_adjacency_matrix (SpecFreq) *)

AdjacencyReturned == adj.status = "computed"

IsProbability(q) == q.den > 0 /\ 0 <= q.num /\ q.num <= q.den

\* the AND-counts of the selected labels the adjacency was computed from
SelectedAndCounts ==
    aggregate_counts(IF adj.AU_method = "AUc"
                     THEN par_run.files.totals.counts_AUc_and
                     ELSE par_run.files.totals.counts_AUr_and, adj.use_labels)

\* C13: for every aggregated count table, also one in which an Action Unit is
\* never active for the selected labels, every entry of the adjacency matrix
\* returned by compute_adjacency_matrix is a defined number in [0, 1].
C13_EntriesAreProbabilities ==
    AdjacencyReturned =>
        \A AUi \in AUs, AUj \in AUs : IsProbability(adj.matrix[AUi][AUj])

\* C13, the failing case: an Action Unit that is never active for the
\* selected labels, and a returned matrix with a nan entry for it
C13_NaNEntryForInactiveAU ==
    /\ AdjacencyReturned
    /\ \E AUj \in AUs :
          /\ SelectedAndCounts[AUj][AUj] = 0
          /\ IsNaNQuotient(adj.matrix[AUj][AUj])

\* What the code does: a returned entry is a number in [0, 1] or nan; for
\* "cond" the nan entries are those of the columns of an Action Unit that is
\* never active; "uncond" never returns a matrix.
EntriesAreProbabilitiesOrNaN ==
    AdjacencyReturned =>
        /\ adj.computation_method # "uncond"
        /\ \A AUi \in AUs, AUj \in AUs :
              \/ IsProbability(adj.matrix[AUi][AUj])
              \/ IsNaNQuotient(adj.matrix[AUi][AUj])
        /\ adj.computation_method = "cond" =>
              \A AUi \in AUs, AUj \in AUs :
                  IsNaNQuotient(adj.matrix[AUi][AUj])
                      <=> SelectedAndCounts[AUj][AUj] = 0

Unsupported(call) ==
    \/ call.AU_method \notin {"AUc", "AUr"}
    \/ call.computation_method \notin {"symm", "cond", "uncond"}
    \/ call.eps.given /\ ~(0 < call.eps.percent /\ call.eps.percent < 100)

\* C14: a call with an unsupported AU_method, an unsupported
\* computation_method or an eps outside (0, 1) fails before any count table
\* is loaded and before any edge weight is computed, and returns no matrix.
C14_FailsBeforeLoading ==
    (adj.status # "none" /\ Unsupported(adj)) =>
        /\ adj.status = "raised"
        /\ adj.loaded = {}
        /\ ~adj.weights_computed

\* C14, the failing cases: eps = 1.5 is rejected only after the tables were
\* loaded and the weights computed
C14_EpsRejectedLate ==
    /\ adj.status = "raised"
    /\ adj.eps = eps_of(150)
    /\ adj.loaded # {}
    /\ adj.weights_computed

\* What the code does: only an unsupported AU_method (and an unsupported
\* label) is rejected before a file is read; an unsupported
\* computation_method is rejected after the AND-counts were loaded, an eps
\* >= 1 after the weights were computed, and eps = 0 is not rejected.
FailureOrder ==
    adj.status # "none" =>
        /\ adj.AU_method \notin {"AUc", "AUr"}
              => adj.status = "raised" /\ adj.loaded = {}
        /\ adj.computation_method = "mean"
              => adj.status = "raised" /\ adj.loaded = {"counts_and"}
        /\ adj.eps = eps_of(150)
              => adj.status = "raised" /\ adj.weights_computed
        /\ adj.eps = eps_of(0) => adj.status = "computed"

----------------------------------------------------------------------------
(* Properties of the stages that load label files (SpecStages) *)

StagesEnded == pc = "preprocessed"

\* the subjects the slicing stage is asked to process and finds no labels for
WithoutVideoLabels == preprocess_run.subjects_valid \ video_label_run.written

\* C15: in every stage that loads a per-subject label file (video label
\* generation, slicing / feature preprocessing) a subject whose label file
\* is missing is skipped with a warning: no exception propagates, nothing is
\* written for that subject and the other subjects are still processed.
C15_MissingLabelFileSkipped ==
    StagesEnded =>
        /\ video_label_run.status = "finished"
        /\ video_label_run.warned = StageSubjects \ video_label_run.raw_label_files
        /\ video_label_run.written = video_label_run.raw_label_files
        /\ preprocess_run.status = "finished"
        /\ preprocess_run.written
              = preprocess_run.subjects_valid \cap video_label_run.written

\* C15, the failing case: one subject has no labels, and the slicing stage
\* ends with its exception and without the results of the subjects that have
C15_PreprocessingAborted ==
    /\ StagesEnded
    /\ Cardinality(WithoutVideoLabels) = 1
    /\ preprocess_run.status = "raised"
    /\ preprocess_run.raised = WithoutVideoLabels
    /\ preprocess_run.done # {}
    /\ preprocess_run.written = {}

\* What the code does: video label generation skips a subject without label
\* file; the slicing stage ends with an exception, and writes nothing, as
\* soon as one of its subjects has no video labels.
OnlyLabelGenerationSkips ==
    /\ video_label_run.status = "finished" =>
          /\ video_label_run.warned
                = StageSubjects \ video_label_run.raw_label_files
          /\ video_label_run.written = video_label_run.raw_label_files
    /\ StagesEnded =>
          /\ WithoutVideoLabels # {} => preprocess_run.status = "raised"
          /\ preprocess_run.status = "raised" => preprocess_run.written = {}
          /\ preprocess_run.status = "finished" =>
                preprocess_run.written = preprocess_run.subjects_valid

----------------------------------------------------------------------------
(* Properties of the labels of OpenFace_Features_Dataset (SpecDataset) *)

DatasetConstructed == pc = "dataset_constructed"

\* sorted baseline labels present in the data, then sorted pain labels present
ClassOrder == base_labels_list(sample_labels) \o pain_labels_list(sample_labels)

OnlyBaseAndPainLabels ==
    \A x \in DOMAIN sample_labels :
        InBaseLabels(sample_labels[x]) \/ InPainLabels(sample_labels[x])

ClassIndexIsPosition ==
    /\ \A x \in DOMAIN sample_labels :
          /\ ds.labels[x] \in 0 .. Len(ClassOrder) - 1
          /\ ClassOrder[ds.labels[x] + 1] = sample_labels[x]
          /\ ds.classes[ds.labels[x]] = sample_labels[x]
    /\ \A x, y \in DOMAIN sample_labels :
          ds.labels[x] = ds.labels[y] <=> sample_labels[x] = sample_labels[y]

\* C18: after construction every sample's class index is the position of its
\* original label in (sorted baseline labels present, sorted pain labels
\* present); two samples have the same index iff they had the same label, and
\* classes maps the index back to the label; for any combination of baseline
\* and pain labels.
C18_ClassIndexIsPosition ==
    (DatasetConstructed /\ OnlyBaseAndPainLabels) => ClassIndexIsPosition

\* C18, the failing case: two baseline labels and a pain label whose value is
\* the class index of the second baseline label
C18_ClassesMerged ==
    /\ DatasetConstructed
    /\ ToSet(sample_labels) = {100, 200, 1}
    /\ \E x, y \in DOMAIN sample_labels :
          /\ sample_labels[x] = 200
          /\ sample_labels[y] = 1
          /\ ds.labels[x] = ds.labels[y]

\* What the code does keep: with one baseline and one pain label (the binary
\* case train.py insists on) the baseline samples are class 0 and the pain
\* samples class 1.
BinaryCaseIsPosition ==
    (/\ DatasetConstructed
     /\ OnlyBaseAndPainLabels
     /\ Len(base_labels_list(sample_labels)) <= 1
     /\ Len(pain_labels_list(sample_labels)) <= 1) => ClassIndexIsPosition

----------------------------------------------------------------------------
(* Where the slices lie and which intervals they come from (SpecSlice) *)

IntervalFrames(k) == intervals.start_idxs[k] .. intervals.end_idxs[k]

SliceFrames(s) == {slices[s].glob_idx[i] : i \in DOMAIN slices[s].glob_idx}

BaseSlicesOf(k) ==
    {s \in DOMAIN slices :
        /\ intervals.interval_labels[k] \in labels_base
        /\ slices[s].label = intervals.interval_labels[k]
        /\ slices[s].start_idx = intervals.start_idxs[k]
              + config.slice_shifts[get_label_group(slices[s].label)] * f_sampling}

\* the frames a pain slice of interval k may hold: the interval and the
\* baseline interval directly behind it
PainRegion(k) ==
    IntervalFrames(k)
        \cup (IF k < NofIntervals THEN IntervalFrames(k + 1) ELSE {})

\* C21: every frame of a baseline slice belongs to the baseline interval it
\* was carved from, and every frame of a pain slice belongs to its pain
\* interval or to the baseline interval directly behind it; no slice holds a
\* frame of the next stimulus interval, also when duration = shift+length
\* (baseline) or shift+slice_length-duration = post_duration (pain).
C21_SliceInValidRegion ==
    Sliced =>
        \A k \in 1 .. NofIntervals :
            /\ \A s \in PainSlicesOf(k) : SliceFrames(s) \subseteq PainRegion(k)
            /\ \A s \in BaseSlicesOf(k) :
                  SliceFrames(s) \subseteq IntervalFrames(k)

\* C21, the failing case: a pain slice with a shift that is not negative and
\* shift+slice_length-duration = post_duration holds the first frame of the
\* interval behind its baseline interval
C21_SliceHoldsNextStimulusFrame ==
    /\ Sliced
    /\ \E k \in 1 .. NofIntervals - 2 : \E s \in PainSlicesOf(k) :
          LET g == get_label_group(slices[s].label)
          IN  /\ config.slice_shifts[g] >= 0
              /\ config.slice_shifts[g] * f_sampling
                     + config.slice_lengths[g] * f_sampling
                     - intervals.durations[k] = intervals.durations[k + 1]
              /\ intervals.start_idxs[k + 2] \in SliceFrames(s)

\* What the code guarantees: with a shift that is not negative a slice ends at
\* most one frame behind its region (end_idx = start_idx + slice_len is
\* included in the slice).
SliceAtMostOneFramePastRegion ==
    Sliced =>
        \A k \in 1 .. NofIntervals :
            /\ \A s \in PainSlicesOf(k) :
                  config.slice_shifts[get_label_group(slices[s].label)] >= 0
                      => \A f \in SliceFrames(s) :
                            /\ f >= intervals.start_idxs[k]
                            /\ k < NofIntervals
                            /\ f <= intervals.end_idxs[k + 1] + 1
            /\ \A s \in BaseSlicesOf(k) :
                  \A f \in SliceFrames(s) :
                      /\ f >= intervals.start_idxs[k]
                      /\ f <= intervals.end_idxs[k] + 1

\* C22: every baseline slice with label 100 x p comes from the interval
\* directly behind a pain interval with label p that was accepted as a pain
\* slice, and that baseline interval lasts at least baseline shift plus
\* baseline slice length; a baseline interval behind a rejected pain interval
\* yields no baseline slice.
C22_BaselineOnlyAfterAcceptedPain ==
    Sliced =>
        \A k \in 1 .. NofIntervals :
            BaseSlicesOf(k) # {} =>
                LET bg == get_label_group(intervals.interval_labels[k])
                IN  /\ k > 1
                    /\ Isin(intervals.interval_labels[k - 1], PainSet)
                    /\ intervals.interval_labels[k]
                           = 100 * intervals.interval_labels[k - 1]
                    /\ PainSlicesOf(k - 1) # {}
                    /\ intervals.durations[k]
                           >= config.slice_shifts[bg] * f_sampling
                                  + config.slice_lengths[bg] * f_sampling

\* C22, the failing case: a baseline slice behind a pain interval that gave
\* no pain slice
C22_BaselineAfterRejectedPain ==
    /\ Sliced
    /\ \E k \in 2 .. NofIntervals :
          /\ BaseSlicesOf(k) # {}
          /\ Isin(intervals.interval_labels[k - 1], PainSet)
          /\ PainSlicesOf(k - 1) = {}

\* What the code guarantees for a baseline slice: the label pairing and the
\* duration of the baseline interval, not the acceptance of the pain interval.
BaselinePairedAndLongEnough ==
    Sliced =>
        \A k \in 1 .. NofIntervals :
            BaseSlicesOf(k) # {} =>
                LET bg == get_label_group(intervals.interval_labels[k])
                IN  /\ k > 1
                    /\ Isin(intervals.interval_labels[k - 1], PainSet)
                    /\ intervals.interval_labels[k]
                           = 100 * intervals.interval_labels[k - 1]
                    /\ intervals.durations[k]
                           >= config.slice_shifts[bg] * f_sampling
                                  + config.slice_lengths[bg] * f_sampling

----------------------------------------------------------------------------
(* The "delete" strategy of _repair_features (SpecRepair) *)

HasCorruptEntry(r) ==
    \E c \in DOMAIN table[r].values : IsCorrupt(table[r].values[c])

\* t holds, in their order and unchanged, the rows of the input table that
\* have no corrupt entry
IsInputWithoutCorruptRows(t) ==
    LET kept == {r \in DOMAIN table : ~HasCorruptEntry(r)}
    IN  /\ Len(t) = Cardinality(kept)
        /\ \A o \in DOMAIN t :
              \E r \in kept :
                  /\ Cardinality({x \in kept : x <= r}) = o
                  /\ t[o] = table[r]

\* C23: _repair_features with strategy "delete" returns the feature table
\* from which exactly the rows with a nan, +inf or -inf entry have been
\* removed, all other rows unchanged: the caller receives a usable table.
C23_DeleteReturnsCleanTable ==
    (pc = "repaired" /\ strategy = "delete") =>
        /\ repaired.status = "returned"
        /\ ~repaired.is_none
        /\ IsInputWithoutCorruptRows(repaired.value)

\* C23, the failing case: a table with a corrupt row and a sound row is
\* repaired with "delete" and the caller receives None
C23_DeleteReturnsNone ==
    /\ pc = "repaired"
    /\ strategy = "delete"
    /\ \E r \in DOMAIN table : HasCorruptEntry(r)
    /\ \E r \in DOMAIN table : ~HasCorruptEntry(r)
    /\ repaired.is_none

\* What the code does: the rows are removed from the table object the caller
\* passed, and the call evaluates to None.
DeleteCleansInPlace ==
    (pc = "repaired" /\ strategy = "delete") =>
        /\ repaired.status = "returned"
        /\ repaired.is_none
        /\ IsInputWithoutCorruptRows(repaired.frame)

----------------------------------------------------------------------------
(* Division by a zero count in compute_rel_AU_freqs_cond (SpecFreq) *)

\* the matrix of the call is the table compute_rel_AU_freqs_cond returned
\* (no eps filter applied to it)
CondTableReturned ==
    /\ AdjacencyReturned
    /\ adj.computation_method = "cond"
    /\ ~adj.eps.given

\* C24: every entry (AUi, AUj) of the table returned by
\* compute_rel_AU_freqs_cond whose denominator count n_AUj is 0 is 0: the
\* undefined quotients are replaced by 0 before the table is returned.
C24_ZeroCountEntriesAreZero ==
    CondTableReturned =>
        \A AUi \in AUs, AUj \in AUs :
            SelectedAndCounts[AUj][AUj] = 0
                => adj.matrix[AUi][AUj] = Divide(0, 1)

\* C24, the failing case: an Action Unit AUj that is never active, another
\* one that is, and the entry (AUi, AUj) of the returned table is nan
C24_ZeroCountEntryIsNaN ==
    /\ CondTableReturned
    /\ \E AUi \in AUs, AUj \in AUs :
          /\ AUi # AUj
          /\ SelectedAndCounts[AUi][AUi] > 0
          /\ SelectedAndCounts[AUj][AUj] = 0
          /\ IsNaNQuotient(adj.matrix[AUi][AUj])

\* What the code does: the table is returned as the loop computed it, so
\* every entry with a zero denominator count is nan.
ZeroCountEntriesAreNaN ==
    CondTableReturned =>
        \A AUi \in AUs, AUj \in AUs :
            SelectedAndCounts[AUj][AUj] = 0
                => IsNaNQuotient(adj.matrix[AUi][AUj])

----------------------------------------------------------------------------
(* Training pass and evaluations within an epoch (SpecTrain) *)

CVRunning == pc \in {"cv_fold", "cv_done"} /\ fold >= 1

\* the epochs of fold f that have been run
EpochsRun(f) == 1 .. Len(history[f]["train_loss_run"])

\* C25: in every epoch the training pass runs first and the evaluations of
\* the test set and of the training set run after it, and no evaluation call
\* changes a model parameter: the metrics recorded for epoch e of a fold are
\* measured on the parameters after exactly e training passes of the fold,
\* and the model still has these parameters when the epoch ends.
C25_EvaluationsAfterTrainingPass ==
    CVRunning =>
        /\ params = [init |-> fold, updates |-> epoch]
        /\ \A f \in 1 .. fold :
              /\ \A name \in MetricLists \ TrainRunLists :
                    history[f][name][1].params = [init |-> f, updates |-> 0]
              /\ \A e \in EpochsRun(f) :
                    LET after_pass == history[f]["train_loss_run"][e].params
                    IN  /\ after_pass = [init |-> f, updates |-> e]
                        /\ \A name \in MetricLists \ TrainRunLists :
                              history[f][name][e + 1].params = after_pass

\* two epochs of a fold have been run and evaluated
C25_Witness ==
    /\ pc = "cv_fold"
    /\ fold >= 1
    /\ epoch = 2
    /\ EpochsRun(fold) = 1 .. 2
    /\ history[fold]["test_acc"][3].params = [init |-> fold, updates |-> 2]
    /\ history[fold]["train_acc_drop"][3].params = [init |-> fold, updates |-> 2]

\* C26: every time kfold_CV calls evaluate_train_epoch (before the training
\* of each fold and at the end of each epoch) the model is not in eval mode:
\* the train_*_drop metrics are measured in training mode (dropout active),
\* the train_* metrics of evaluate_epoch in eval mode.
C26_TrainDropInTrainingMode ==
    CVRunning =>
        \A f \in 1 .. fold :
            /\ \A name \in TrainDropLists :
                  \A i \in DOMAIN history[f][name] : history[f][name][i].training
            /\ \A name \in TrainLists :
                  \A i \in DOMAIN history[f][name] : ~history[f][name][i].training

\* C26, the failing case: the train_*_drop metrics of an epoch are measured
\* in eval mode, the mode of the train_* metrics of the same epoch
C26_TrainDropInEvalMode ==
    /\ CVRunning
    /\ epoch >= 1
    /\ ~history[fold]["train_acc_drop"][epoch + 1].training
    /\ history[fold]["train_acc_drop"][epoch + 1]
          = history[fold]["train_acc"][epoch + 1]

\* What the code does: evaluate_train_epoch runs in training mode only in its
\* first call (fold 1, before training); every later call follows an
\* evaluate_epoch and runs in eval mode.
TrainDropInTrainingModeOnlyAtFirstCall ==
    CVRunning =>
        \A f \in 1 .. fold :
            \A name \in TrainDropLists :
                \A i \in DOMAIN history[f][name] :
                    history[f][name][i].training <=> (f = 1 /\ i = 1)

----------------------------------------------------------------------------
(* Workers, aggregation and writing of the two batch jobs (SpecBatch) *)

\* the blocks a csv file holds when the tables of the subjects are written
\* in the order of the subject list, the header with the first one only
InSubjectListOrder(file, subjects) ==
    LET order == SortedSeq(subjects)
    IN  /\ Len(file) = Len(order)
        /\ \A i \in DOMAIN file :
              /\ file[i].subject = order[i]
              /\ file[i].header <=> i = 1

PreprocessFilesWritten ==
    \/ preprocess_run.features_csv # <<>>
    \/ preprocess_run.slices_csv # <<>>
    \/ preprocess_run.written # {}

FrequencyJobs == ToSet(used_subjects(subject_frames, subjects_no_use))

\* C27: in frequency_analysis_parallel and preprocess_parallel a worker's
\* result depends on its own subject only; results are aggregated and
\* written only after every worker has finished; when a worker raises the
\* batch job fails and no result file is written; what is written does not
\* depend on the order in which the workers finish: the results are combined
\* in the order of the subject list and the csv header is written once.
C27_WriteAfterAllWorkers ==
    /\ PreprocessFilesWritten =>
          /\ preprocess_run.status = "finished"
          /\ preprocess_run.pending = {}
          /\ preprocess_run.done = preprocess_run.subjects_valid
    /\ preprocess_run.raised # {} =>
          /\ preprocess_run.status \in {"running", "raised"}
          /\ ~PreprocessFilesWritten
    /\ preprocess_run.status = "finished" =>
          /\ InSubjectListOrder(preprocess_run.features_csv,
                                preprocess_run.subjects_valid)
          /\ InSubjectListOrder(preprocess_run.slices_csv,
                                preprocess_run.subjects_valid)
    /\ \A subj \in DOMAIN par_run.results :
          par_run.results[subj] = subject_frequency_analysis(subject_frames[subj])
    /\ (par_run.files.exists \/ par_run.totals # ZeroTotals) =>
          /\ par_run.status = "written"
          /\ DOMAIN par_run.results = FrequencyJobs
    /\ par_run.raised # {} =>
          /\ par_run.status \in {"running", "raised"}
          /\ ~par_run.files.exists
          /\ par_run.totals = ZeroTotals
    /\ par_run.status = "written" =>
          /\ par_run.totals
                = sequential_totals(subject_frames,
                      used_subjects(subject_frames, subjects_no_use), ZeroTotals)
          /\ par_run.files = to_csv(par_run.totals)

\* the preprocessing workers ended in another order than the subject list
\* and both files were written; the frequency analysis failed with a worker
\* that raised after another worker had returned its counts
C27_Witness ==
    /\ preprocess_run.status = "finished"
    /\ Len(preprocess_run.finish_order) >= 2
    /\ preprocess_run.finish_order # SortedSeq(preprocess_run.subjects_valid)
    /\ Len(preprocess_run.features_csv) = Len(preprocess_run.finish_order)
    /\ Len(preprocess_run.slices_csv) = Len(preprocess_run.finish_order)
    /\ par_run.status = "raised"
    /\ DOMAIN par_run.results # {}

\* both batch jobs wrote their files
BothBatchJobsWritten ==
    /\ preprocess_run.status = "finished"
    /\ preprocess_run.finish_order # SortedSeq(preprocess_run.subjects_valid)
    /\ par_run.status = "written"
    /\ par_run.totals # ZeroTotals

----------------------------------------------------------------------------
(* The video-rate intervals of generate_subject_video_labels              *)
(* (SpecVideoLabels)                                                       *)

VideoLabelsWritten == labels_video.status = "written"

NofVideoIntervals == Len(labels_video.idxs_start)

\* the video frames that carry a label in the written file
LabelledFrames ==
    {f \in 0 .. bio_recording.nof_samples_video - 1 :
        ~IsNaN(labels_video.frames[f + 1])}

\* x is an integer nearest to e * fs_video / fs_label
NearestFrame(x, e) ==
    2 * Abs(x * bio_recording.fs_label - e * bio_recording.fs_video)
        <= bio_recording.fs_label

\* C28: for every raw label sequence and every rate ratio
\* fs_video / fs_label <= 1 the video-rate intervals tile the video frames:
\* the start index of interval i+1 is the end index of interval i plus 1, no
\* later interval overwrites a frame an earlier one assigned, every video
\* frame from 0 up to the last labelled frame carries the label of exactly
\* one interval, and each shared boundary lies at the integer frame nearest
\* to the raw boundary.
C28_VideoIntervalsTile ==
    VideoLabelsWritten =>
        /\ labels_video.idxs_start[1] = 0
        /\ \A i \in 1 .. NofVideoIntervals - 1 :
              /\ labels_video.idxs_start[i + 1] = labels_video.idxs_end[i] + 1
              /\ LET e == labels_video.raw_idxs_end[i]
                 IN  \/ NearestFrame(labels_video.idxs_end[i], e)
                     \/ NearestFrame(labels_video.idxs_start[i + 1], e + 1)
        /\ \A f \in 0 .. bio_recording.nof_samples_video - 1 :
              /\ Len(labels_video.writers[f + 1]) <= 1
              /\ (\E g \in LabelledFrames : f <= g) =>
                    /\ Len(labels_video.writers[f + 1]) = 1
                    /\ LET i == labels_video.writers[f + 1][1]
                       IN  /\ labels_video.idxs_start[i] <= f
                           /\ f <= labels_video.idxs_end[i]
                           /\ labels_video.frames[f + 1]
                                 = labels_video.interval_labels[i]

\* a recording with three intervals that each get a video frame, at a rate
\* ratio below 1, one boundary moved down and one moved up
C28_Witness ==
    /\ VideoLabelsWritten
    /\ bio_recording.fs_video < bio_recording.fs_label
    /\ NofVideoIntervals >= 3
    /\ \A i \in 1 .. 3 :
          \E f \in LabelledFrames : labels_video.writers[f + 1] = <<i>>
    /\ \E i \in 1 .. NofVideoIntervals - 1 :
          is_endidx(labels_video.raw_idxs_end[i], bio_recording.fs_video,
                    bio_recording.fs_label)
    /\ \E i \in 1 .. NofVideoIntervals - 1 :
          ~is_endidx(labels_video.raw_idxs_end[i], bio_recording.fs_video,
                     bio_recording.fs_label)

----------------------------------------------------------------------------
(* The sample rate the feature functions are evaluated with (SpecFeat) *)

FeaturesReturned == pc = "extracted" /\ features.status = "returned"

\* the entries of the functions whose signature has a sample_rate
\* parameter, in the branch with the given suffix
RateAwareEntries(suffix) ==
    {i \in DOMAIN features.features :
        features.features[i].feature
            \in {f \o suffix : f \in rate_aware_functions}}

\* C29: every configured feature function whose signature accepts a sample
\* rate is evaluated with the actual sample rate of the recording, not with
\* the function's default, in all three branches of
\* _extract_features_from_slice alike: base signal, first derivative and
\* second derivative.
C29_ActualSampleRateInAllBranches ==
    FeaturesReturned =>
        \A suffix \in {"", "_d1", "_d2"} :
            \A i \in RateAwareEntries(suffix) :
                features.features[i].rate = sample_rate

\* C29, the failing case: signal_tmax is configured for the base signal and
\* for the first derivative of a channel; the base value is computed with
\* the actual rate, the first-derivative value with the default rate after
\* a failed call with the rate
C29_DefaultRateOnFirstDerivative ==
    /\ FeaturesReturned
    /\ \E i, j \in DOMAIN features.features :
          /\ features.features[i].channel = features.features[j].channel
          /\ features.features[i].feature = "signal_tmax"
          /\ features.features[i].rate = sample_rate
          /\ features.features[j].feature = "signal_tmax_d1"
          /\ features.features[j].rate = DefaultSampleRate
          /\ features.features[j].calls = 2
    /\ sample_rate # DefaultSampleRate

\* What the code does: the base signal and the second derivative are
\* evaluated with the actual rate, the first derivative with the default.
ActualRateExceptOnFirstDerivative ==
    FeaturesReturned =>
        /\ \A suffix \in {"", "_d2"} :
              \A i \in RateAwareEntries(suffix) :
                  /\ features.features[i].rate = sample_rate
                  /\ features.features[i].calls = 1
        /\ \A i \in RateAwareEntries("_d1") :
              /\ features.features[i].rate = DefaultSampleRate
              /\ features.features[i].calls = 2

----------------------------------------------------------------------------
(* A subject without slices in preprocess_parallel (SpecStages) *)

\* the subjects of the run whose video labels give no slice
ZeroSliceSubjects ==
    {subject_id \in preprocess_run.subjects_valid :
        LET l == preprocess_run.video_labels[subject_id]
        IN  extract_slices(l, preprocess_run.sample_rate,
                           preprocess_run.config,
                           compute_intervals_info(l)) = <<>>}

\* the parallel call has ended and no job missed its label file
PreprocessEndedWithAllLabelFiles ==
    /\ preprocess_run.status \in {"finished", "raised"}
    /\ preprocess_run.subjects_valid \subseteq video_label_run.written

\* C30: preprocess on a subject for which no interval passes the slice
\* predicates completes without raising and contributes an empty feature
\* table and no slices, so that preprocess_parallel still writes the results
\* of the other subjects.
C30_ZeroSliceSubjectDoesNotRaise ==
    /\ preprocess_run.status \in {"running", "finished", "raised"}
          => preprocess_run.raised \cap ZeroSliceSubjects
                 \subseteq StageSubjects \ video_label_run.written
    /\ PreprocessEndedWithAllLabelFiles =>
          /\ preprocess_run.status = "finished"
          /\ preprocess_run.subjects_valid \ ZeroSliceSubjects
                 \subseteq preprocess_run.written

\* C30, the failing case: every subject has its label file, one of them has
\* no slice; its job raised, the jobs of the other subjects returned, and
\* the parallel call ended with the exception and without a file
C30_ZeroSliceSubjectRaises ==
    /\ PreprocessEndedWithAllLabelFiles
    /\ ZeroSliceSubjects # {}
    /\ preprocess_run.raised = ZeroSliceSubjects
    /\ preprocess_run.done = preprocess_run.subjects_valid \ ZeroSliceSubjects
    /\ preprocess_run.done # {}
    /\ preprocess_run.status = "raised"
    /\ preprocess_run.written = {}
    /\ preprocess_run.features_csv = <<>>
    /\ preprocess_run.slices_csv = <<>>

\* What the code does: a job on a subject without slices raises, and a run
\* with such a subject never writes a file.
ZeroSliceSubjectStopsTheRun ==
    /\ preprocess_run.status \in {"running", "finished", "raised"}
          => ZeroSliceSubjects \cap preprocess_run.done = {}
    /\ preprocess_run.status \in {"ready", "running", "finished", "raised"}
          /\ ZeroSliceSubjects # {}
          => /\ preprocess_run.status # "finished"
             /\ preprocess_run.written = {}
             /\ preprocess_run.features_csv = <<>>

====
